---- MODULE Spec2Model ----
(***************************************************************************)
(* PokerAnalytics: the betting-round walkers (flop response matrix         *)
(* builder, c-bet loader, turn loader, river loader) and the position      *)
(* resolvers, as state machines over one hand.                             *)
(*                                                                         *)
(* A walker reads the hand's action records one at a time, round by round  *)
(* (blinds = 0, pre-flop = 1, flop = 2, turn = 3, river = 4).  Amounts are  *)
(* integers (cents).  A ratio amount / pot is kept exactly as the pair      *)
(* <<amount, pot>> where the code keeps the float, and in millionths where *)
(* the code rounds it to six decimals.  Of an event record the model keeps *)
(* the bettor, the amounts, the ratio, the classification, the player      *)
(* count and the responses; the card classification and the line type of   *)
(* the bettor are not part of it.                                          *)
(***************************************************************************)
EXTENDS Integers, Sequences, FiniteSets, TLC

\* ---------------------------------------------------------------- bounds
MaxAmount == 1
MaxPot == 3
MaxSeats == 9
MaxRest == 2
MaxEvents == 2
MaxNumerator == 400
MaxHalves == 210
MaxParts == 4
MaxListed == 3
MaxRows == 3
MaxLimit == 2
MaxHands == 3
MaxActions == 3
MaxShoves == 2
MaxGames == 2
MaxPreflop == 2

\* ------------------------------------------------------------ the input
None == "None"
Hero == "H"
Players == {"H", "V", "W"}
Actors == Players \cup {None}

BET_TYPES == {"5", "7"}
RAISE_TYPES == {"23", "7"}
CALL_TYPES == {"3"}
CHECK_TYPES == {"4"}
FOLD_TYPES == {"0"}
POST_TYPES == {"1", "2"}
ALL_IN_TYPES == {"7"}
\* analysis/cbet_utils: a check counts as a fold response
CBET_FOLD_TYPES == {"0", "4"}

\* Action records a round can hold: posts in the blinds round; fold, check,
\* call, raise, all-in pre-flop; those and bet on the later streets.  A fold
\* or a check carries no amount.
TypesOfRound(r) ==
    IF r = 0 THEN POST_TYPES
    ELSE IF r = 1 THEN {"0", "3", "4", "23", "7"}
    ELSE {"0", "3", "4", "5", "23", "7"}

ActionsOfRound(r) ==
    { a \in [player : Actors, type : TypesOfRound(r), amount : 0..MaxAmount, round : {r}] :
        a.type \in {"0", "4"} => a.amount = 0 }

\* The hole cards a hand history shows: nobody's, the hero's, or the hero's
\* and those of an opponent who went to showdown.
PocketSets == {{}, {"H"}, {"H", "W"}}

VARIABLES
    loader,       \* which walker reads the hand: "matrix", "cbet", "turn", "river"
    big_blind,    \* the hand's big blind, 0 when none can be extracted
    pocket,       \* the players whose two hole cards are in the hand history
    board,        \* TRUE when the street's board cards node is present and parses
    round,        \* number of the round being read
    paid,         \* sum of the positive amounts of the named-actor records read
    betMade,      \* a named actor has bet/raised a positive amount this round
    after,        \* "nobet" until a BetEvent is emitted this round, then for each
                  \* player the type of their first record since (None: none yet)
    acted,        \* flop builder's hand: the named actors that acted on the flop
    aggr,         \* flop builder's hand: last named actor that raised a positive
                  \* amount pre-flop
    folded,       \* flop builder's hand: named actors whose latest record before
                  \* the flop, checks aside, is a fold
    fm,           \* locals of _events_from_hand_history
    cb,           \* locals of load_cbet_events
    tu,           \* locals of load_turn_events
    rv            \* locals of load_river_events

wvars == <<loader, big_blind, pocket, board, round, paid, betMade, after, acted, aggr,
           folded, fm, cb, tu, rv>>

\* round(amount / pot, 6), in millionths
Round6(n, d) == (2 * n * 1000000 + d) \div (2 * d)

\* ------------------------------------------- data/bet_sizing.py
\* A ratio is None (NoRatio) or the float n / d, written <<n, d>> with
\* d >= 0: d = 0 gives the floats that are not finite, 0/0 NaN, 1/0
\* float("inf"), -1/0 float("-inf").  An order comparison of two floats is
\* the comparison of the cross products, and is false when one is NaN.
NoRatio == <<>>
NaNRatio == <<0, 0>>
InfRatio == <<1, 0>>
NegInfRatio == <<0 - 1, 0>>

\* bounds in hundredths; upper = -1 stands for float("inf")
BET_SIZE_BUCKETS ==
    << [key |-> "pct_0_25",     lower |-> 0,   upper |-> 25],
       [key |-> "pct_25_40",    lower |-> 25,  upper |-> 40],
       [key |-> "pct_40_60",    lower |-> 40,  upper |-> 60],
       [key |-> "pct_60_80",    lower |-> 60,  upper |-> 80],
       [key |-> "pct_80_100",   lower |-> 80,  upper |-> 100],
       [key |-> "pct_100_125",  lower |-> 100, upper |-> 125],
       [key |-> "pct_125_200",  lower |-> 125, upper |-> 200],
       [key |-> "pct_200_300",  lower |-> 200, upper |-> 300],
       [key |-> "pct_300_plus", lower |-> 300, upper |-> -1] >>

\* contains with the upper bound included (`ratio <= self.upper`)
contains_upper_included(b, ratio) ==
    LET n == ratio[1]
        d == ratio[2]
    IN  IF ratio = NaNRatio THEN FALSE
        ELSE IF n * 100 < b.lower * d THEN FALSE
        ELSE IF b.upper = -1 THEN n * 100 >= b.lower * d
        ELSE n * 100 <= b.upper * d

\* BetSizeBucket.contains
contains(b, ratio) ==
    LET n == ratio[1]
        d == ratio[2]
    IN  IF ratio = NaNRatio THEN FALSE
        ELSE IF n * 100 < b.lower * d THEN FALSE
        ELSE IF b.upper = -1 THEN n * 100 >= b.lower * d
        ELSE n * 100 < b.upper * d

\* bucket_for_ratio: the index of the bucket in BET_SIZE_BUCKETS, 0 for None
bucket_for_ratio(ratio) ==
    IF ratio = NoRatio THEN 0
    ELSE IF ratio = NaNRatio THEN 0
    ELSE IF ratio[1] < 0 THEN 0
    ELSE LET hits == { i \in 1..Len(BET_SIZE_BUCKETS) : contains(BET_SIZE_BUCKETS[i], ratio) }
         IN  IF hits # {} THEN CHOOSE i \in hits : \A j \in hits : i <= j
             ELSE Len(BET_SIZE_BUCKETS)

\* --------------------------- services/flop_response_matrix_builder.py
\* classify_bet without `preflop_aggressor not in acted_set`
classify_bet_ignoring_acted(hero, preflop_aggressor, players_acted, flop_active_players) ==
    IF preflop_aggressor = hero THEN "cbet"
    ELSE IF preflop_aggressor # None /\ preflop_aggressor \in flop_active_players
    THEN "donk"
    ELSE "stab"

classify_bet(hero, preflop_aggressor, players_acted, flop_active_players) ==
    IF preflop_aggressor = hero THEN "cbet"
    ELSE IF preflop_aggressor # None /\ preflop_aggressor \in flop_active_players
            /\ preflop_aggressor \notin players_acted THEN "donk"
    ELSE "stab"

MatrixInit ==
    [ total_pot |-> 0,
      active_players |-> Players,
      preflop_aggressor |-> None,
      events |-> <<>>,
      flop_player_count |-> 0,
      flop_active_snapshot |-> {},
      hero_event_recorded |-> FALSE,
      players_acted |-> {},
      flop_bet_seen |-> FALSE,
      stopped |-> big_blind <= 0 ]

\* the body of `if round_no == 1`
matrix_preflop(s, a) ==
    IF a.player = None THEN s
    ELSE [s EXCEPT
            !.total_pot = IF a.amount > 0 THEN @ + a.amount ELSE @,
            !.active_players =
                IF a.type \in FOLD_TYPES THEN @ \ {a.player}
                ELSE IF a.type \notin CHECK_TYPES THEN @ \cup {a.player}
                ELSE @,
            !.preflop_aggressor =
                IF a.type \in RAISE_TYPES /\ a.amount > 0 THEN a.player ELSE @]

\* matrix_fires without `and not flop_bet_seen`
matrix_fires_after_bet(s, a) ==
    /\ ~s.hero_event_recorded
    /\ a.player = Hero
    /\ a.type \in BET_TYPES
    /\ a.amount > 0
    /\ s.flop_player_count >= 2
    /\ s.flop_active_snapshot # {}

\* the test of the `if` that guards the event
matrix_fires(s, a) ==
    /\ ~s.hero_event_recorded
    /\ a.player = Hero
    /\ a.type \in BET_TYPES
    /\ a.amount > 0
    /\ ~s.flop_bet_seen
    /\ s.flop_player_count >= 2
    /\ s.flop_active_snapshot # {}

\* ratio = (amount / pot_before) if pot_before > 0 else None
matrix_ratio(amount, pot_before) ==
    IF pot_before > 0 THEN <<amount, pot_before>> ELSE NoRatio

\* the body of `elif round_no == 2`, one action
matrix_flop(s, a) ==
    IF a.player = None THEN s
    ELSE
      LET pot_before == s.total_pot
          ratio == matrix_ratio(a.amount, pot_before)
          bucket == bucket_for_ratio(ratio)
          emit == matrix_fires(s, a) /\ bucket # 0 /\ ratio # NoRatio
          event == [ bet_type |-> classify_bet(Hero, s.preflop_aggressor, s.players_acted,
                                               s.flop_active_snapshot),
                     player_count |-> s.flop_player_count,
                     ratio |-> ratio,
                     bucket_key |-> BET_SIZE_BUCKETS[bucket].key,
                     is_all_in |-> a.type \in ALL_IN_TYPES,
                     is_one_bb |-> a.amount = big_blind ]
      IN  [s EXCEPT
            !.events = IF emit THEN Append(@, event) ELSE @,
            !.hero_event_recorded = @ \/ emit,
            !.flop_bet_seen = @ \/ (a.type \in (BET_TYPES \cup RAISE_TYPES) /\ a.amount > 0),
            !.active_players = IF a.type \in FOLD_TYPES THEN @ \ {a.player} ELSE @,
            !.total_pot = IF a.amount > 0 THEN @ + a.amount ELSE @,
            !.players_acted = @ \cup {a.player}]

\* the body of the final `else` (blinds, turn, river)
matrix_other(s, a) ==
    [s EXCEPT
        !.total_pot = IF a.amount > 0 THEN @ + a.amount ELSE @,
        !.active_players =
            IF a.player # None /\ a.type \in FOLD_TYPES THEN @ \ {a.player} ELSE @]

matrix_action(s, a) ==
    IF a.round = 1 THEN matrix_preflop(s, a)
    ELSE IF a.round = 2 THEN matrix_flop(s, a)
    ELSE matrix_other(s, a)

\* entering round r: the top of the `elif round_no == 2` branch
matrix_round(s, r) ==
    IF r # 2 THEN s
    ELSE IF Cardinality(s.active_players) < 2 THEN [s EXCEPT !.stopped = TRUE]
    ELSE [s EXCEPT
            !.flop_player_count = IF @ = 0 THEN Cardinality(s.active_players) ELSE @,
            !.flop_active_snapshot = IF s.flop_player_count = 0 THEN s.active_players ELSE @,
            !.players_acted = {},
            !.flop_bet_seen = FALSE]

\* --------------------- analysis/cbet_utils (load_cbet_events), one hand
response_kind(act_type) ==
    IF act_type \in CBET_FOLD_TYPES THEN "Fold"
    ELSE IF act_type \in CALL_TYPES THEN "Call"
    ELSE IF act_type \in RAISE_TYPES THEN "Raise"
    ELSE IF act_type \in BET_TYPES THEN "Raise"
    ELSE None

street_response(a) ==
    [ player |-> a.player, response |-> response_kind(a.type),
      action_type |-> a.type, amount |-> a.amount ]

\* responds without `player not in responders_recorded`
responds_again(s, a) ==
    /\ s.current_event # 0
    /\ a.player # s.events[s.current_event].player

\* the test that guards the response block of the three loaders
responds(s, a) ==
    /\ s.current_event # 0
    /\ a.player # s.events[s.current_event].player
    /\ a.player \notin s.responders_recorded

record_response(s, a) ==
    IF response_kind(a.type) # None
    THEN [s EXCEPT
            !.events[s.current_event].responses = Append(@, street_response(a)),
            !.responders_recorded = @ \cup {a.player}]
    ELSE s

add_pot(s, a) ==
    [s EXCEPT !.total_pot = IF a.amount > 0 THEN @ + a.amount ELSE @]

CbetInit ==
    [ total_pot |-> 0,
      last_aggressor |-> None,
      cbet_logged |-> FALSE,
      flop_cards |-> FALSE,
      current_event |-> 0,
      responders_recorded |-> {},
      events |-> <<>>,
      skipped |-> big_blind <= 0 \/ pocket = {} ]

\* the test of the `if` that guards the c-bet
cbet_fires(s, a) ==
    /\ ~s.cbet_logged
    /\ s.last_aggressor # None
    /\ a.player = s.last_aggressor
    /\ a.type \in (BET_TYPES \cup RAISE_TYPES)
    /\ a.amount > 0

cbet_recordable(s, a) ==
    s.flop_cards /\ a.player \in pocket /\ s.total_pot > 0

\* `if round_no == 1 and ...: last_aggressor = player` / `elif round_no == 2:`
cbet_bet(s, a) ==
    IF a.round = 1 /\ a.type \in RAISE_TYPES /\ a.amount > 0
    THEN [s EXCEPT !.last_aggressor = a.player]
    ELSE IF a.round = 2 /\ cbet_fires(s, a)
    THEN IF cbet_recordable(s, a)
         THEN [s EXCEPT
                 !.events = Append(@, [ player |-> a.player,
                                        ratio |-> Round6(a.amount, s.total_pot),
                                        responses |-> <<>> ]),
                 !.current_event = Len(s.events) + 1,
                 !.responders_recorded = {},
                 !.cbet_logged = TRUE]
         ELSE [s EXCEPT !.cbet_logged = TRUE]
    ELSE s

\* the response block that follows it
cbet_response(s, a) ==
    IF a.round = 2 /\ responds(s, a) THEN record_response(s, a) ELSE s

cbet_action(s, a) ==
    IF a.player = None THEN s
    ELSE add_pot(cbet_response(cbet_bet(s, a), a), a)

\* leaving round r - 1 (`if round_no != 2: current_event = None`) and
\* entering round r (the flop cards are read at the top of round 2)
cbet_round(s, r) ==
    [s EXCEPT
        !.current_event = IF r - 1 # 2 THEN 0 ELSE @,
        !.flop_cards = IF r = 2 THEN board ELSE @]

\* ------------------------------ analysis/turn_utils.py, one hand
bucketize_ratio(amount, pot_before) ==
    IF pot_before <= 0 THEN 0 ELSE Round6(amount, pot_before)

TurnInit ==
    [ total_pot |-> 0,
      turn_cards |-> FALSE,
      current_event |-> 0,
      responders_recorded |-> {},
      turn_first_bettor |-> None,
      events |-> <<>>,
      skipped |-> big_blind <= 0 \/ pocket = {} ]

turn_fires(s, a) ==
    /\ s.turn_first_bettor = None
    /\ a.type \in (BET_TYPES \cup RAISE_TYPES)
    /\ a.amount > 0

turn_event(s, a) ==
    [ player |-> a.player,
      ratio |-> bucketize_ratio(a.amount, s.total_pot),
      responses |-> <<>>,
      bet_amount |-> a.amount,
      bet_action_type |-> a.type,
      is_all_in |-> a.type = "7",
      is_one_bb |-> a.amount = big_blind,
      pot_before |-> s.total_pot ]

\* the `elif round_no == 3` block; a `continue` leaves the pot as it was
turn_turn(s, a) ==
    IF turn_fires(s, a)
    THEN IF ~s.turn_cards \/ a.player \notin pocket
         THEN s
         ELSE add_pot([s EXCEPT
                         !.events = Append(@, turn_event(s, a)),
                         !.current_event = Len(s.events) + 1,
                         !.responders_recorded = {},
                         !.turn_first_bettor = a.player], a)
    ELSE IF responds(s, a)
    THEN add_pot(record_response(s, a), a)
    ELSE add_pot(s, a)

turn_action(s, a) ==
    IF a.player = None THEN s
    ELSE IF a.round = 3 THEN turn_turn(s, a)
    ELSE add_pot(s, a)

turn_round(s, r) ==
    [s EXCEPT
        !.current_event = IF r - 1 # 3 THEN 0 ELSE @,
        !.turn_cards = IF r = 3 THEN board ELSE @]

\* ------------------------------ analysis/river_utils.py, one hand
ratio_of(amount, pot_before) ==
    IF pot_before <= 0 THEN 0 ELSE Round6(amount, pot_before)

RiverInit ==
    [ total_pot |-> 0,
      river_cards |-> FALSE,
      current_event |-> 0,
      responders_recorded |-> {},
      events |-> <<>>,
      skipped |-> big_blind <= 0 \/ pocket = {} ]

river_fires(s, a) ==
    /\ s.current_event = 0
    /\ a.type \in (BET_TYPES \cup RAISE_TYPES)
    /\ a.amount > 0

river_event(s, a) ==
    [ player |-> a.player,
      ratio |-> ratio_of(a.amount, s.total_pot),
      responses |-> <<>>,
      bet_amount |-> a.amount,
      is_all_in |-> a.type = "7",
      is_one_bb |-> a.amount = big_blind,
      pot_before |-> s.total_pot ]

\* the `if round_no == 4` block; a `continue` leaves the pot as it was
river_river(s, a) ==
    IF river_fires(s, a)
    THEN IF ~s.river_cards \/ a.player \notin pocket
         THEN s
         ELSE add_pot([s EXCEPT
                         !.events = Append(@, river_event(s, a)),
                         !.current_event = Len(s.events) + 1,
                         !.responders_recorded = {}], a)
    ELSE IF responds(s, a)
    THEN add_pot(record_response(s, a), a)
    ELSE add_pot(s, a)

river_action(s, a) ==
    IF a.player = None THEN s
    ELSE IF a.round = 4 THEN river_river(s, a)
    ELSE add_pot(s, a)

river_round(s, r) ==
    [s EXCEPT
        !.current_event = IF r - 1 # 4 THEN 0 ELSE @,
        !.river_cards = IF r = 4 THEN board ELSE @]

\* ------------------------------------------------- the position resolvers
\* The hand a resolver reads: the listed players (name, seat,
\* dealer marker) in listing order, the players dealt cards, the hero, the
\* posts of the blinds round and the players of the pre-flop actions in
\* order; and what the resolver returns for it.  A player's name is a
\* number 1..MaxSeats, 0 stands for a missing name, and a position map is a
\* function on the names with Absent for a name that is not a key.
VARIABLES
    players,        \* <<[name, seat, dealer]>> of general/players
    dealt_players,  \* names of the round-1 cards nodes
    hero_name,
    round_zero,     \* <<[type, player]>> posts of round 0
    preflop_actors, \* the players of the round-1 actions, in order
    position_map,   \* opponent_performance._parse_game: the map it settles on
    position,       \* ... and the position it reports for the hero
    labels,         \* flop_response_matrix_builder._position_labels
    ring,           \* preflop_response_curves_builder._assign_positions_from_players
    resolver,       \* the resolver that reads the hand
    done            \* it has run

pvars == <<resolver, players, dealt_players, hero_name, round_zero, preflop_actors,
           position_map, position, labels, ring, done>>

Names == 1..MaxSeats
NoName == 0
Absent == "absent"
UNKNOWN == "UNKNOWN"
EmptyMap == [p \in Names |-> Absent]
Range(s) == {s[i] : i \in DOMAIN s}

\* opponent_performance.POSITIONS_BY_COUNT.get(count)
POSITIONS_BY_COUNT(count) ==
    CASE count = 2 -> <<"SB", "BB">>
      [] count = 3 -> <<"SB", "BB", "BTN">>
      [] count = 4 -> <<"SB", "BB", "CO", "BTN">>
      [] count = 5 -> <<"SB", "BB", "HJ", "CO", "BTN">>
      [] count = 6 -> <<"SB", "BB", "LJ", "HJ", "CO", "BTN">>
      [] count = 7 -> <<"SB", "BB", "UTG", "LJ", "HJ", "CO", "BTN">>
      [] count = 8 -> <<"SB", "BB", "UTG", "UTG+1", "LJ", "HJ", "CO", "BTN">>
      [] count = 9 -> <<"SB", "BB", "UTG", "UTG+1", "UTG+2", "LJ", "HJ", "CO", "BTN">>
      [] OTHER -> <<>>

\* preflop_response_curves_builder.POSITION_RING_MAP.get(count)
POSITION_RING_MAP(count) ==
    CASE count = 2 -> <<"SB", "BB">>
      [] count = 3 -> <<"SB", "BB", "BTN">>
      [] count = 4 -> <<"SB", "BB", "CO", "BTN">>
      [] count = 5 -> <<"SB", "BB", "UTG", "CO", "BTN">>
      [] count = 6 -> <<"SB", "BB", "UTG", "HJ", "CO", "BTN">>
      [] count = 7 -> <<"SB", "BB", "UTG", "UTG+1", "HJ", "CO", "BTN">>
      [] count = 8 -> <<"SB", "BB", "UTG", "UTG+1", "UTG+2", "HJ", "CO", "BTN">>
      [] count = 9 -> <<"SB", "BB", "UTG", "UTG+1", "UTG+2", "LJ", "HJ", "CO", "BTN">>
      [] OTHER -> <<>>

\* sorted(records, key=lambda p: p['seat']), the seats being distinct
sorted_by_seat(records) ==
    [k \in 1..Cardinality(records) |->
        CHOOSE p \in records : Cardinality({q \in records : q.seat < p.seat}) = k - 1]

\* the dict left by `for label, player in zip(order, rotation): mapping[player] = label`
zip_mapping(order, rotation) ==
    LET m == IF Len(order) < Len(rotation) THEN Len(order) ELSE Len(rotation)
        last(p) == CHOOSE i \in 1..m :
                       rotation[i] = p /\ \A j \in 1..m : rotation[j] = p => j <= i
    IN  [p \in Names |-> IF \E i \in 1..m : rotation[i] = p THEN order[last(p)] ELSE Absent]

\* _parse_game: the name of the last listed player with dealer="1"
dealer_name_of(pl) ==
    IF \E i \in 1..Len(pl) : pl[i].dealer
    THEN pl[CHOOSE i \in 1..Len(pl) : pl[i].dealer /\ \A j \in 1..Len(pl) : pl[j].dealer => j <= i].name
    ELSE NoName

\* _parse_game: the player of the last round-0 action of the type
blind_name(posts, type) ==
    IF \E i \in 1..Len(posts) : posts[i].type = type /\ posts[i].player # NoName
    THEN posts[CHOOSE i \in 1..Len(posts) :
                   /\ posts[i].type = type /\ posts[i].player # NoName
                   /\ \A j \in 1..Len(posts) :
                         (posts[j].type = type /\ posts[j].player # NoName) => j <= i].player
    ELSE NoName

\* _parse_game: the players of the pre-flop actions, each once, by first action
RECURSIVE acting_order_of(_)
acting_order_of(actors) ==
    IF actors = <<>> THEN <<>>
    ELSE LET before == acting_order_of(SubSeq(actors, 1, Len(actors) - 1))
             name == actors[Len(actors)]
         IN  IF name # NoName /\ name \notin Range(before) THEN Append(before, name)
             ELSE before

assign_positions_from_actions(dealt, small_blind_name, big_blind_name, acting_order) ==
    LET count == Cardinality(dealt)
        order == POSITIONS_BY_COUNT(count)
        blinds == [p \in Names |->
                     IF count >= 2 /\ big_blind_name # NoName /\ big_blind_name \in dealt
                        /\ p = big_blind_name
                     THEN order[2]
                     ELSE IF count >= 1 /\ small_blind_name # NoName
                             /\ small_blind_name \in dealt /\ p = small_blind_name
                     THEN order[1]
                     ELSE Absent]
        remaining_positions == SubSeq(order, 3, Len(order))
        remaining_players ==
            SelectSeq(acting_order, LAMBDA name : name \in dealt /\ blinds[name] = Absent)
        rest == zip_mapping(remaining_positions, remaining_players)
    IN  IF order = <<>> THEN EmptyMap
        ELSE [p \in Names |-> IF rest[p] # Absent THEN rest[p] ELSE blinds[p]]

\* assign_positions_from_seats with the dealer rotation running forward
\* from the dealer instead of backward to it
assign_positions_from_seats_forward(pl, dealt, small_blind_name, dealer_name) ==
    LET count == Cardinality(dealt)
        order == POSITIONS_BY_COUNT(count)
        seat_sorted == sorted_by_seat({pl[i] : i \in {j \in 1..Len(pl) : pl[j].name \in dealt}})
        len == Len(seat_sorted)
        dealer_idx == (CHOOSE i \in 1..len : seat_sorted[i].name = dealer_name) - 1
        rotation == [i \in 1..count |-> seat_sorted[((dealer_idx + (i - 1)) % len) + 1].name]
    IN  IF pl = <<>> \/ dealt = {} THEN EmptyMap
        ELSE IF order = <<>> \/ Len(order) # count THEN EmptyMap
        ELSE IF /\ dealer_name # NoName /\ dealer_name \in dealt
                /\ \E i \in 1..len : seat_sorted[i].name = dealer_name
        THEN zip_mapping(order, rotation)
        ELSE EmptyMap

assign_positions_from_seats(pl, dealt, small_blind_name, dealer_name) ==
    LET count == Cardinality(dealt)
        order == POSITIONS_BY_COUNT(count)
        seat_sorted == sorted_by_seat({pl[i] : i \in {j \in 1..Len(pl) : pl[j].name \in dealt}})
        len == Len(seat_sorted)
        index_of(name) == (CHOOSE i \in 1..len : seat_sorted[i].name = name) - 1
        listed(name) == \E i \in 1..len : seat_sorted[i].name = name
        \* dealer as BTN, going backwards in seats
        dealer_idx == index_of(dealer_name)
        rotation ==
            [i \in 1..count |->
                seat_sorted[((dealer_idx - (count - 1 - (i - 1))) % len) + 1].name]
        \* fallback: rotation from the small blind's seat, else from the lowest seat
        sb_seat == IF small_blind_name # NoName /\ listed(small_blind_name)
                   THEN seat_sorted[index_of(small_blind_name) + 1].seat
                   ELSE seat_sorted[1].seat
        start_index == (CHOOSE i \in 1..len : seat_sorted[i].seat = sb_seat) - 1
        rotation_list ==
            [i \in 1..count |-> seat_sorted[((start_index + (i - 1)) % len) + 1].name]
    IN  IF pl = <<>> \/ dealt = {} THEN EmptyMap
        ELSE IF order = <<>> \/ Len(order) # count THEN EmptyMap
        ELSE IF /\ dealer_name # NoName /\ dealer_name \in dealt
                /\ "BTN" \in Range(order) /\ listed(dealer_name)
        THEN zip_mapping(order, rotation)
        ELSE zip_mapping(order, rotation_list)

\* _parse_game, from the seat-based attempt to the reported position
parse_game_map(pl, dealt, hero, posts, actors) ==
    LET small_blind_name == blind_name(posts, "1")
        big_blind_name == blind_name(posts, "2")
        by_seats == assign_positions_from_seats(pl, dealt, small_blind_name, dealer_name_of(pl))
    IN  IF by_seats[hero] # Absent THEN by_seats
        ELSE assign_positions_from_actions(dealt, small_blind_name, big_blind_name,
                                           acting_order_of(actors))

map_get(mapping, name, default) ==
    IF mapping[name] # Absent THEN mapping[name] ELSE default

\* flop_response_matrix_builder._position_labels; with ten players the
\* tenth label is f"P{idx}" = "P9"
canonical == <<"BTN", "SB", "BB", "UTG", "UTG+1", "UTG+2", "LJ", "HJ", "CO">>

position_labels(pl) ==
    LET sorted_players == sorted_by_seat(Range(pl))
        len == Len(sorted_players)
        button_index ==
            IF \E i \in 1..len : sorted_players[i].dealer
            THEN (CHOOSE i \in 1..len :
                     sorted_players[i].dealer /\ \A j \in 1..len : sorted_players[j].dealer => i <= j) - 1
            ELSE 0
        order_from_button ==
            [i \in 1..len |-> sorted_players[((button_index + (i - 1)) % len) + 1].name]
        label_list == [i \in 1..len |-> IF i - 1 < Len(canonical) THEN canonical[i] ELSE "P9"]
    IN  IF pl = <<>> THEN EmptyMap ELSE zip_mapping(label_list, order_from_button)

\* preflop_response_curves_builder._assign_positions_from_players
assign_positions_from_players(pl, sb_player_name) ==
    LET seats_sorted == sorted_by_seat(Range(pl))
        len == Len(seats_sorted)
        known(name) == \E i \in 1..len : seats_sorted[i].name = name
        sb_seat == IF sb_player_name # NoName /\ known(sb_player_name)
                   THEN seats_sorted[CHOOSE i \in 1..len : seats_sorted[i].name = sb_player_name].seat
                   ELSE seats_sorted[1].seat
        start_idx == (CHOOSE i \in 1..len : seats_sorted[i].seat = sb_seat) - 1
        rotation == [i \in 1..len |-> seats_sorted[((start_idx + (i - 1)) % len) + 1].name]
        default == <<"SB", "BB", "UTG", "UTG+1", "UTG+2", "LJ", "HJ", "CO", "BTN">>
        template == IF POSITION_RING_MAP(len) # <<>> THEN POSITION_RING_MAP(len)
                    ELSE SubSeq(default, 1, IF len < Len(default) THEN len ELSE Len(default))
    IN  IF pl = <<>> THEN EmptyMap ELSE zip_mapping(template, rotation)

\* ------------------------------------------ bucket_for_ratio on a ratio
\* The ratio bucket_for_ratio is called with and the bucket it returns (its
\* index in BET_SIZE_BUCKETS counted from 1, 0 for None).
VARIABLES
    ratio_given,     \* the argument
    bucket_found,    \* the result
    ratio_bucketed   \* the call has returned

rvars == <<ratio_given, bucket_found, ratio_bucketed>>

\* None, NaN, the two infinities, and the fractions n / 100 and n / 7 from
\* just below zero up
RatioArguments ==
    {NoRatio, NaNRatio, InfRatio, NegInfRatio}
        \cup { <<n, d>> : n \in (0 - 2)..MaxNumerator, d \in {7, 100} }

\* bucket_for_ratio is not called
RatioIdle ==
    /\ ratio_given = NoRatio /\ bucket_found = 0 /\ ratio_bucketed = TRUE

\* ------------------------------------- services/flop_response_matrix.py
\* value.strip().lower(), for the response texts of the events
lowered(value) ==
    CASE value = "Fold" -> "fold"
      [] value = "Call" -> "call"
      [] value = "Raise" -> "raise"
      [] value = "Check" -> "check"
      [] value = "Donk" -> "donk"
      [] OTHER -> value

\* _normalise_response: None for what is not call, raise or fold
normalise_response(value) ==
    IF lowered(value) \in {"call", "raise", "fold"} THEN lowered(value) ELSE None

\* _resolve_outcome, the loop from the response it stands at
RECURSIVE resolve_outcome_from(_, _)
resolve_outcome_from(responses, has_call) ==
    IF responses = <<>> THEN (IF has_call THEN "call" ELSE "fold")
    ELSE LET result == normalise_response(Head(responses).response)
         IN  IF result = "raise" THEN "raise"
             ELSE resolve_outcome_from(Tail(responses), has_call \/ result = "call")

resolve_outcome(responses) == resolve_outcome_from(responses, FALSE)

\* BUCKET_KEYS: the keys of the ratio buckets, then all_in and one_bb
BUCKET_KEYS ==
    {BET_SIZE_BUCKETS[i].key : i \in DOMAIN BET_SIZE_BUCKETS} \cup {"all_in", "one_bb"}

BET_TYPE_OPTIONS == <<"cbet", "donk", "stab">>
HERO_POSITION_ORDER ==
    <<"SB", "BB", "UTG", "UTG+1", "UTG+2", "LJ", "HJ", "CO", "BTN", "UNKNOWN">>
POSITION_OPTIONS == <<"IP", "OOP">>

\* {value: index}.get(x, len(order)), the index counted from 0
order_get(order, x) ==
    IF \E i \in DOMAIN order : order[i] = x
    THEN (CHOOSE i \in DOMAIN order : order[i] = x) - 1
    ELSE Len(order)

\* _normalise_bet_type
normalise_bet_type(value) ==
    IF value = None THEN None
    ELSE IF \E i \in DOMAIN BET_TYPE_OPTIONS : BET_TYPE_OPTIONS[i] = lowered(value)
    THEN lowered(value)
    ELSE None

\* _bucket_for_event
bucket_for_event(event) ==
    IF event.is_all_in THEN "all_in"
    ELSE IF event.is_one_bb THEN "one_bb"
    ELSE IF event.bucket_key # None THEN event.bucket_key
    ELSE LET bucket == bucket_for_ratio(event.ratio)
         IN  IF bucket # 0 THEN BET_SIZE_BUCKETS[bucket].key ELSE None

\* the counters of one bucket, and the value the defaultdict makes for a key
NoCounters == [events |-> 0, fold_events |-> 0, call_events |-> 0, raise_events |-> 0]
DefaultMetrics == [key \in BUCKET_KEYS |-> NoCounters]

\* the locals of _aggregate_events before its loop
AggregateInit ==
    [ aggregate |-> <<>>, player_counts |-> {}, hero_positions |-> {} ]

\* count_outcome without the `elif outcome == "call"` branch
count_outcome_without_call(metrics, outcome) ==
    [metrics EXCEPT
        !.events = @ + 1,
        !.raise_events = IF outcome = "raise" THEN @ + 1 ELSE @,
        !.fold_events = IF outcome # "raise" THEN @ + 1 ELSE @]

\* bucket_metrics["events"] += 1 and the counter of the outcome += 1
count_outcome(metrics, outcome) ==
    [metrics EXCEPT
        !.events = @ + 1,
        !.raise_events = IF outcome = "raise" THEN @ + 1 ELSE @,
        !.call_events = IF outcome # "raise" /\ outcome = "call" THEN @ + 1 ELSE @,
        !.fold_events = IF outcome \notin {"raise", "call"} THEN @ + 1 ELSE @]

\* a turn of the loop that counts an event only in a scenario that has none
aggregate_event_unless_counted(st, event) ==
    LET hero_position == IF event.hero_position = None THEN "UNKNOWN"
                         ELSE event.hero_position
        bet_type == normalise_bet_type(event.bet_type)
        ip_or_oop == IF event.position # None THEN event.position
                     ELSE IF event.in_position THEN "IP" ELSE "OOP"
        player_count == event.player_count
        bucket_key == bucket_for_event(event)
        outcome == IF event.villain_outcome # None THEN event.villain_outcome
                   ELSE resolve_outcome(event.responses)
        key == <<hero_position, bet_type, ip_or_oop, player_count>>
        counted == [DefaultMetrics EXCEPT ![bucket_key] = count_outcome(@, outcome)]
        seen == [st EXCEPT !.hero_positions = @ \cup {hero_position}]
    IN  IF bet_type = None THEN seen
        ELSE IF bucket_key = None THEN seen
        ELSE IF key \in DOMAIN st.aggregate THEN seen
        ELSE [seen EXCEPT
                !.aggregate = [k \in DOMAIN st.aggregate \cup {key} |->
                                  IF k = key THEN counted ELSE st.aggregate[k]],
                !.player_counts = IF player_count # 0 THEN @ \cup {player_count} ELSE @]

\* one turn of the loop of _aggregate_events
aggregate_event(st, event) ==
    LET hero_position == IF event.hero_position = None THEN "UNKNOWN"
                         ELSE event.hero_position
        bet_type == normalise_bet_type(event.bet_type)
        ip_or_oop == IF event.position # None THEN event.position
                     ELSE IF event.in_position THEN "IP" ELSE "OOP"
        player_count == event.player_count
        bucket_key == bucket_for_event(event)
        outcome == IF event.villain_outcome # None THEN event.villain_outcome
                   ELSE resolve_outcome(event.responses)
        key == <<hero_position, bet_type, ip_or_oop, player_count>>
        metrics == IF key \in DOMAIN st.aggregate THEN st.aggregate[key]
                   ELSE DefaultMetrics
        counted == [metrics EXCEPT ![bucket_key] = count_outcome(@, outcome)]
        seen == [st EXCEPT !.hero_positions = @ \cup {hero_position}]
    IN  IF bet_type = None THEN seen
        ELSE IF bucket_key = None THEN seen
        ELSE [seen EXCEPT
                !.aggregate = [k \in DOMAIN st.aggregate \cup {key} |->
                                  IF k = key THEN counted ELSE st.aggregate[k]],
                !.player_counts = IF player_count # 0 THEN @ \cup {player_count} ELSE @]

\* the sort key of a scenario, and the order of two sort keys
scenario_rank(key) ==
    << order_get(HERO_POSITION_ORDER, key[1]), order_get(BET_TYPE_OPTIONS, key[2]),
       order_get(POSITION_OPTIONS, key[3]), key[4] >>

rank_less(a, b) ==
    \E i \in 1..4 : a[i] < b[i] /\ \A j \in 1..(i - 1) : a[j] = b[j]

\* the scenarios list built after the loop, sorted
scenarios_of(aggregate) ==
    LET keys == DOMAIN aggregate
        nth(n) == CHOOSE k \in keys :
                      Cardinality({q \in keys : rank_less(scenario_rank(q), scenario_rank(k))})
                          = n - 1
    IN  [n \in 1..Cardinality(keys) |->
            [ hero_position |-> nth(n)[1], bet_type |-> nth(n)[2], position |-> nth(n)[3],
              player_count |-> nth(n)[4], metrics |-> aggregate[nth(n)] ]]

\* the loop of _aggregate_events over a list of events
RECURSIVE aggregate_from(_, _)
aggregate_from(st, events) ==
    IF events = <<>> THEN st
    ELSE aggregate_from(aggregate_event(st, Head(events)), Tail(events))

\* _aggregate_events: the scenarios, the player counts and the hero
\* positions it returns, and the counters the scenarios are built from
aggregate_events(events) ==
    LET st == aggregate_from(AggregateInit, events)
    IN  [ scenarios |-> scenarios_of(st.aggregate),
          player_counts |-> st.player_counts,
          hero_positions |-> st.hero_positions,
          aggregate |-> st.aggregate ]

\* The events _aggregate_events is given, one at a time: events as the flop
\* builder writes them (bucket_key and villain_outcome set) and as the
\* legacy caches hold them (a ratio and a responses list), of a known bet
\* type or not; the ratio of a cached event may be missing or no finite
\* non-negative number.
VARIABLES
    agg,          \* locals of _aggregate_events
    agg_read,     \* number of events read
    agg_last,     \* the event read last
    agg_result,   \* the scenarios returned
    agg_done      \* the function has returned

avars == <<agg, agg_read, agg_last, agg_result, agg_done>>

AggRatios == {NoRatio, NaNRatio, NegInfRatio, InfRatio, <<0 - 1, 100>>, <<30, 100>>}

AggResponses ==
    { <<>>,
      <<[response |-> "Fold"]>>,
      <<[response |-> "Fold"], [response |-> "Call"]>>,
      <<[response |-> "Call"], [response |-> "Raise"]>> }

AggEvents ==
    { e \in [ hero_position : {"BTN"}, bet_type : {"cbet", "Donk", "probe"},
              position : {None}, in_position : {TRUE}, player_count : {2},
              is_all_in : BOOLEAN, is_one_bb : BOOLEAN,
              bucket_key : {None, "pct_25_40"}, ratio : AggRatios,
              villain_outcome : {None, "raise"}, responses : AggResponses ] :
        /\ e.bucket_key # None => (e.ratio = <<30, 100>> /\ e.villain_outcome # None)
        /\ e.villain_outcome # None => (e.responses = <<>> /\ e.bucket_key # None) }

NoEvent ==
    [ hero_position |-> None, bet_type |-> None, position |-> None, in_position |-> FALSE,
      player_count |-> 0, is_all_in |-> FALSE, is_one_bb |-> FALSE, bucket_key |-> None,
      ratio |-> NoRatio, villain_outcome |-> None, responses |-> <<>> ]

\* no event list is aggregated
AggIdle ==
    /\ agg = AggregateInit /\ agg_read = 0 /\ agg_last = NoEvent
    /\ agg_result = <<>> /\ agg_done = TRUE

\* ------------------------------- _aggregate_events on a list and on the
\* same list in another order
VARIABLES
    listed,        \* the list of events
    reorder,       \* a permutation of its indices
    of_listed,     \* what _aggregate_events returns for the list
    of_reordered   \* what it returns for the list in the other order

lvars == <<listed, reorder, of_listed, of_reordered>>

\* nothing returned yet
NotAggregated == [ returned |-> FALSE, result |-> aggregate_events(<<>>) ]

\* cached events with a responses list: the hero's position known or not,
\* the ratio 0.30 or missing, answered by a fold or by a fold and a call
ListedEvents ==
    [ hero_position : {"BTN", None}, bet_type : {"cbet"},
      position : {None}, in_position : {TRUE}, player_count : {2},
      is_all_in : {FALSE}, is_one_bb : {FALSE},
      bucket_key : {None}, ratio : {NoRatio, <<30, 100>>},
      villain_outcome : {None},
      responses : { <<[response |-> "Fold"]>>,
                    <<[response |-> "Fold"], [response |-> "Call"]>> } ]

Reorderings(n) ==
    { f \in [1..n -> 1..n] : \A i, j \in 1..n : f[i] = f[j] => i = j }

reordered == [ i \in DOMAIN listed |-> listed[reorder[i]] ]

\* no list is aggregated
ListIdle ==
    /\ listed = <<>> /\ reorder = <<>>
    /\ of_listed = [NotAggregated EXCEPT !.returned = TRUE]
    /\ of_reordered = [NotAggregated EXCEPT !.returned = TRUE]

\* ------------------------------------------- data/cards.extract_big_blind
\* The texts of the gametype and bigblind nodes at the two paths the
\* function looks at ("./general/..." and ".//game/general/..."), the float
\* it returns and what the dependent that called it does with the hand.  A
\* float is a record: a number (in big-blind units of the walkers), NaN, or
\* None for no float.
VARIABLES
    gametype_nodes,  \* <<text at ./general/gametype, text at .//game/general/gametype>>
    bigblind_nodes,  \* <<text at ./general/bigblind, text at .//game/general/bigblind>>
    dependent,       \* the loader that reads the hand
    extracted,       \* what extract_big_blind has returned
    hand_skipped,    \* the dependent has left the hand at its big-blind test
    blind_read       \* the dependent has gone through its big-blind test

bvars == <<gametype_nodes, bigblind_nodes, dependent, extracted, hand_skipped, blind_read>>

NoText == ""
Num(n) == [kind |-> "num", n |-> n]
NaN == [kind |-> "nan", n |-> 0]
NoFloat == [kind |-> "None", n |-> 0]
ValueError == [kind |-> "ValueError", n |-> 0]

\* the texts a gametype node can hold: none (no node, or an empty one), one
\* without stakes, and two with stakes
GameTypeTexts == {NoText, "Holdem NL", "Holdem NL $0/$0", "Holdem NL $0.50/$1"}

\* the texts a bigblind node can hold
BigBlindTexts == {NoText, "one", "-1", "0", "1", "nan"}

NoMatch == "no match"

\* _BB_REGEX.search(text).group(2): the number after the slash
BB_REGEX_group2(text) ==
    CASE text = "Holdem NL $0/$0" -> "0"
      [] text = "Holdem NL $0.50/$1" -> "1"
      [] OTHER -> NoMatch

\* float(text)
float_of(text) ==
    CASE text = "0" -> Num(0)
      [] text = "1" -> Num(1)
      [] text = "-1" -> Num(0 - 1)
      [] text = "nan" -> NaN
      [] OTHER -> ValueError

\* the first loop: the float of the first gametype node that has text, a
\* match and a second group that float() takes
RECURSIVE from_gametype(_)
from_gametype(nodes) ==
    IF nodes = <<>> THEN NoFloat
    ELSE LET text == Head(nodes)
         IN  IF text # NoText /\ BB_REGEX_group2(text) # NoMatch
                /\ float_of(BB_REGEX_group2(text)) # ValueError
             THEN float_of(BB_REGEX_group2(text))
             ELSE from_gametype(Tail(nodes))

\* the second loop: the float of the first bigblind node that has text
\* that float() takes
RECURSIVE from_bigblind(_)
from_bigblind(nodes) ==
    IF nodes = <<>> THEN NoFloat
    ELSE LET text == Head(nodes)
         IN  IF text # NoText /\ float_of(text) # ValueError THEN float_of(text)
             ELSE from_bigblind(Tail(nodes))

extract_big_blind(gametypes, bigblinds) ==
    IF from_gametype(gametypes) # NoFloat THEN from_gametype(gametypes)
    ELSE from_bigblind(bigblinds)

\* `big_blind <= 0`: false for NaN
not_positive(value) == value.kind = "num" /\ value.n <= 0

\* `not big_blind`: None and 0.0 are falsy, NaN is not
falsy(value) == value = NoFloat \/ (value.kind = "num" /\ value.n = 0)

\* the builder's `if not big_blind or big_blind <= 0: return []`
matrix_skips(value) == falsy(value) \/ not_positive(value)

\* the loaders' `if big_blind is None or big_blind <= 0: continue`
loader_skips(value) == value = NoFloat \/ not_positive(value)

\* no hand is read for its big blind
BlindIdle ==
    /\ gametype_nodes = <<NoText, NoText>> /\ bigblind_nodes = <<NoText, NoText>>
    /\ dependent = "matrix" /\ extracted = NoFloat
    /\ hand_skipped = TRUE /\ blind_read = TRUE

\* ------------------------- the flop builder on a hand, and on its shadow
\* _events_from_hand_history on one hand with a positive big blind, read
\* through the flop, next to its run on the same hand without the action
\* records that carry no player.  The flop's records after the hero's event
\* are kept: they are the actions[idx + 1:] that _villain_outcome scans.
VARIABLES
    hand_round,   \* number of the round being read
    sitting_out,  \* listed players who are not dealt in; they never act
    quit,         \* players who have folded; they do not act again
    in_at_flop,   \* the players dealt in who had not folded when the flop began
    hm,           \* locals of _events_from_hand_history on the hand
    hm_rest,      \* the flop's records after the event, on the hand
    skm,          \* the locals on the hand without its no-player records
    skm_rest      \* the flop's records after the event, without them

hvars == <<hand_round, sitting_out, quit, in_at_flop, hm, hm_rest, skm, skm_rest>>

\* _villain_outcome, the loop from the record it stands at
RECURSIVE villain_outcome_from(_, _, _)
villain_outcome_from(actions, hero, outcome) ==
    IF actions = <<>> THEN outcome
    ELSE LET a == Head(actions)
         IN  IF a.player = None \/ a.player = hero THEN outcome
             ELSE IF a.type \in FOLD_TYPES \/ a.type \in CHECK_TYPES
             THEN villain_outcome_from(Tail(actions), hero, outcome)
             ELSE IF a.type \in BET_TYPES \/ a.type \in RAISE_TYPES THEN "raise"
             ELSE villain_outcome_from(Tail(actions), hero,
                                       IF a.type \in CALL_TYPES THEN "call" ELSE outcome)

villain_outcome(actions, hero) == villain_outcome_from(actions, hero, "fold")

\* the events the builder returns: those of the walk, each with the
\* villain_outcome of the records that follow it in the flop round
events_with_outcome(s, rest) ==
    [k \in DOMAIN s.events |->
        [ bet_type |-> s.events[k].bet_type,
          player_count |-> s.events[k].player_count,
          ratio |-> s.events[k].ratio,
          bucket_key |-> s.events[k].bucket_key,
          is_all_in |-> s.events[k].is_all_in,
          is_one_bb |-> s.events[k].is_one_bb,
          villain_outcome |-> villain_outcome(rest, Hero) ]]

\* no hand is read by the builder and its shadow
HandIdle ==
    /\ hand_round = 0 /\ sitting_out = {} /\ quit = {} /\ in_at_flop = {}
    /\ hm = [MatrixInit EXCEPT !.stopped = TRUE] /\ hm_rest = <<>>
    /\ skm = [MatrixInit EXCEPT !.stopped = TRUE] /\ skm_rest = <<>>

\* ------------- services/preflop_response_curves_builder.py, the buckets
\* A stack or a pot in big blinds is a float n / d, written <<n, d>> as a
\* ratio is.  The bounds are in halves of a big blind; upper = -1 stands
\* for float("inf").
STACK_BUCKETS ==
    << [key |-> "bb_0_30",     lower |-> 0,   upper |-> 60],
       [key |-> "bb_30_60",    lower |-> 60,  upper |-> 120],
       [key |-> "bb_60_100",   lower |-> 120, upper |-> 200],
       [key |-> "bb_100_plus", lower |-> 200, upper |-> -1] >>

POT_BUCKETS ==
    << [key |-> "pot_blinds", lower |-> 0,  upper |-> 5],
       [key |-> "pot_small",  lower |-> 5,  upper |-> 9],
       [key |-> "pot_medium", lower |-> 9,  upper |-> 15],
       [key |-> "pot_large",  lower |-> 15, upper |-> 25],
       [key |-> "pot_huge",   lower |-> 25, upper |-> -1] >>

\* `value < bucket.upper`
below(value, upper) ==
    IF value = NaNRatio THEN FALSE
    ELSE IF upper = -1 THEN value # InfRatio
    ELSE IF value[2] = 0 THEN value = NegInfRatio
    ELSE 2 * value[1] < upper * value[2]

\* `value >= bucket.lower`
at_least(value, lower) ==
    IF value = NaNRatio THEN FALSE
    ELSE IF value[2] = 0 THEN value = InfRatio
    ELSE 2 * value[1] >= lower * value[2]

\* math.isclose(value, bucket.upper): rel_tol is 1e-09 and abs_tol 0, so
\* |a - b| <= 1e-09 * max(|a|, |b|), here with both sides times 2 * d
isclose(value, upper) ==
    IF value = NaNRatio THEN FALSE
    ELSE IF upper = -1 THEN value = InfRatio
    ELSE IF value[2] = 0 THEN FALSE
    ELSE LET a == 2 * value[1]
             b == upper * value[2]
             diff == IF a >= b THEN a - b ELSE b - a
             absa == IF a >= 0 THEN a ELSE 0 - a
             largest == IF absa >= b THEN absa ELSE b
         IN  diff <= largest \div 1000000000

\* the loop of _stack_bucket_for and _pot_bucket_for over the buckets: the
\* index of the first bucket that takes the value, the last one if none does
first_bucket_for(buckets, value) ==
    LET hits == { i \in 1..Len(buckets) :
                    /\ below(value, buckets[i].upper) \/ isclose(value, buckets[i].upper)
                    /\ at_least(value, buckets[i].lower) }
    IN  IF hits # {} THEN CHOOSE i \in hits : \A j \in hits : i <= j
        ELSE Len(buckets)

\* _stack_bucket_for: the index in STACK_BUCKETS, 0 for None
stack_bucket_for(effective_stack_bb) ==
    IF effective_stack_bb # NaNRatio
          /\ (effective_stack_bb = NegInfRatio
                \/ (effective_stack_bb[2] > 0 /\ effective_stack_bb[1] <= 0))
    THEN 0
    ELSE first_bucket_for(STACK_BUCKETS, effective_stack_bb)

\* max(pot_before_bb, 0.0): the first argument unless 0.0 is greater
max_with_zero(pot_before_bb) ==
    IF pot_before_bb = NaNRatio THEN NaNRatio
    ELSE IF pot_before_bb = NegInfRatio THEN <<0, 1>>
    ELSE IF pot_before_bb[2] > 0 /\ pot_before_bb[1] < 0 THEN <<0, 1>>
    ELSE pot_before_bb

\* _pot_bucket_for: the index in POT_BUCKETS
pot_bucket_for(pot_before_bb) ==
    first_bucket_for(POT_BUCKETS, max_with_zero(pot_before_bb))

\* ------------------------------------- a bucket for a stack or for a pot
VARIABLES
    bucketer,         \* "stack" for _stack_bucket_for, "pot" for _pot_bucket_for
    blinds_given,     \* the argument
    blinds_bucket,    \* the result, an index counted from 1, 0 for None
    blinds_bucketed   \* the call has returned

dvars == <<bucketer, blinds_given, blinds_bucket, blinds_bucketed>>

\* a stack just above 100 bb and a pot just above 12.5 bb, both within
\* math.isclose of the bound
NearHundred == <<1070000001, 10700000>>
NearTwelveAndAHalf == <<1070000001, 85600000>>

\* NaN, the two infinities, and the fractions n / 2 and n / 7 from just
\* below zero up
BlindsArguments ==
    {NaNRatio, InfRatio, NegInfRatio}
        \cup { <<n, d>> : n \in (0 - 2)..MaxHalves, d \in {2, 7} }

\* neither function is called
DepthIdle ==
    /\ bucketer = None /\ blinds_given = NoRatio
    /\ blinds_bucket = 0 /\ blinds_bucketed = TRUE

\* ------------------------------ analysis/cbet_utils, the hand's category
\* A card is <<suit, rank>>, the rank from 2 to 14 (the ace).  The hole and
\* the board are sets of cards: _classify_hand counts suits and ranks and
\* compares the two hole ranks with each other, so the order of the cards in
\* its lists plays no part.
SUITS == {"S", "H", "D", "C"}

ranks_of(cards) == { c[2] : c \in cards }

\* Counter(r for _, r, _ in cards)[r]
rank_count(cards, r) == Cardinality({ c \in cards : c[2] = r })

\* Counter(s for s, _, _ in cards)[s]
suit_count(cards, s) == Cardinality({ c \in cards : c[1] = s })

\* _has_flush
has_flush(cards) == \E s \in SUITS : suit_count(cards, s) >= 5

\* _has_flush_draw without the test that the hole holds the suit
has_flush_draw_any_hole(hole, the_board) ==
    \E s \in SUITS : suit_count(hole, s) + suit_count(the_board, s) >= 4

\* _has_flush_draw
has_flush_draw(hole, the_board) ==
    \E s \in SUITS :
        /\ suit_count(hole, s) + suit_count(the_board, s) >= 4
        /\ suit_count(hole, s) > 0

\* the ranks with the ace also counted as 1
with_low_ace(ranks) == IF 14 \in ranks THEN ranks \cup {1} ELSE ranks

\* _straight_info without the test of the two ends of the window
straight_info_any_window(hole, the_board) ==
    LET unique == with_low_ace(ranks_of(hole \cup the_board))
        straight == \E start \in 1..10 : \A offset \in 0..4 : (start + offset) \in unique
        hole_ranks == with_low_ace(ranks_of(hole))
        window(start) == {start, start + 1, start + 2, start + 3}
    IN  [ straight |-> straight,
          oesd |-> /\ ~straight
                   /\ \E start \in 1..11 :
                         /\ window(start) \subseteq unique
                         /\ window(start) \cap hole_ranks # {} ]

\* _straight_info: (straight, oesd)
straight_info(hole, the_board) ==
    LET unique == with_low_ace(ranks_of(hole \cup the_board))
        straight == \E start \in 1..10 : \A offset \in 0..4 : (start + offset) \in unique
        hole_ranks == with_low_ace(ranks_of(hole))
        window(start) == {start, start + 1, start + 2, start + 3}
    IN  [ straight |-> straight,
          oesd |-> /\ ~straight
                   /\ \E start \in 1..11 :
                         /\ window(start) \subseteq unique
                         /\ window(start) \cap hole_ranks # {}
                         /\ start - 1 >= 1
                         /\ start + 4 <= 14 ]

\* the greatest rank of a set of ranks, 0 (None) for the empty set
highest(ranks) == IF ranks = {} THEN 0 ELSE CHOOSE r \in ranks : \A q \in ranks : q <= r

\* the if / elif chain with Straight tested before Flush
primary_of_straight_first(f) ==
    IF f.made_full THEN "Full House"
    ELSE IF f.made_four THEN "Quads"
    ELSE IF f.straight THEN "Straight"
    ELSE IF f.made_flush THEN "Flush"
    ELSE IF f.made_trips_only THEN "Trips/Set"
    ELSE IF f.made_two_pair THEN "Two Pair"
    ELSE IF f.overpair THEN "Overpair"
    ELSE IF f.top_pair THEN "Top Pair"
    ELSE IF f.middle_pair THEN "Middle Pair"
    ELSE IF f.bottom_pair THEN "Bottom Pair"
    ELSE IF f.underpair THEN "Underpair"
    ELSE "Air"

\* the if / elif chain of _classify_hand that names the primary category
primary_of(f) ==
    IF f.made_full THEN "Full House"
    ELSE IF f.made_four THEN "Quads"
    ELSE IF f.made_flush THEN "Flush"
    ELSE IF f.straight THEN "Straight"
    ELSE IF f.made_trips_only THEN "Trips/Set"
    ELSE IF f.made_two_pair THEN "Two Pair"
    ELSE IF f.overpair THEN "Overpair"
    ELSE IF f.top_pair THEN "Top Pair"
    ELSE IF f.middle_pair THEN "Middle Pair"
    ELSE IF f.bottom_pair THEN "Bottom Pair"
    ELSE IF f.underpair THEN "Underpair"
    ELSE "Air"

\* _classify_hand
classify_hand(hole, the_board) ==
    LET combined == hole \cup the_board
        count(r) == rank_count(combined, r)
        counted == ranks_of(combined)
        board_unique == ranks_of(the_board)
        hole_ranks == ranks_of(hole)
        hole_pair == Cardinality(hole) = 2 /\ Cardinality(hole_ranks) = 1
        hole_rank == highest(hole_ranks)
        made_flush == has_flush(combined)
        si == straight_info(hole, the_board)
        flush_draw == IF made_flush THEN FALSE ELSE has_flush_draw(hole, the_board)
        made_four == \E r \in counted : count(r) >= 4
        made_full == \E r \in counted : \E q \in counted \ {r} : count(r) >= 3 /\ count(q) >= 2
        made_trips_only == (\E r \in counted : count(r) >= 3) /\ ~made_full /\ ~made_four
        made_two_pair == Cardinality({ r \in counted : count(r) >= 2 }) >= 2
                            /\ ~made_full /\ ~made_four
        max_board == highest(board_unique)
        second_board == highest(board_unique \ {max_board})
        third_board == highest(board_unique \ {max_board, second_board})
        overpair == hole_pair /\ max_board # 0 /\ hole_rank > max_board
                        /\ ~made_two_pair /\ ~made_full /\ ~made_four
        above == made_full \/ made_four \/ made_trips_only \/ made_two_pair \/ overpair
        top_pair == ~above /\ max_board # 0 /\ max_board \in hole_ranks
        middle_pair == ~(above \/ top_pair) /\ second_board # 0 /\ second_board \in hole_ranks
        bottom_pair == ~(above \/ top_pair \/ middle_pair)
                            /\ third_board # 0 /\ third_board \in hole_ranks
        underpair == hole_pair /\ max_board # 0 /\ hole_rank < max_board
                        /\ ~made_full /\ ~made_four /\ ~made_trips_only
    IN  [ primary |-> primary_of([ made_full |-> made_full, made_four |-> made_four,
                                   made_flush |-> made_flush, straight |-> si.straight,
                                   made_trips_only |-> made_trips_only,
                                   made_two_pair |-> made_two_pair, overpair |-> overpair,
                                   top_pair |-> top_pair, middle_pair |-> middle_pair,
                                   bottom_pair |-> bottom_pair, underpair |-> underpair ]),
          flush_draw |-> flush_draw,
          oesd |-> si.oesd,
          made_flush |-> made_flush,
          made_straight |-> si.straight,
          made_full |-> made_full ]

\* ------------------------------------------- _classify_hand on a hand
VARIABLES
    hole_cards,     \* the two hole cards
    board_cards,    \* the three to five board cards
    classification, \* what _classify_hand returned
    classified      \* the call has returned

cvars == <<hole_cards, board_cards, classification, classified>>

\* the cards of the hands that are classified: eight hearts, two clubs, a
\* diamond and a spade
Deck ==
    { <<"H", r>> : r \in {14, 13, 12, 11, 5, 4, 3, 2} }
        \cup { <<"C", r>> : r \in {14, 2} }
        \cup { <<"D", 14>>, <<"S", 14>> }

NoClassification ==
    [ primary |-> None, flush_draw |-> FALSE, oesd |-> FALSE,
      made_flush |-> FALSE, made_straight |-> FALSE, made_full |-> FALSE ]

\* no hand is classified
ClassifyIdle ==
    /\ hole_cards = {} /\ board_cards = {}
    /\ classification = NoClassification /\ classified = TRUE

\* --------------------------- data/cards.parse_cards_text, data/textures.py
\* A text is the sequence of the parts that text.split() gives, a part is a
\* sequence of characters; the parts hold no white space, so the strip() of
\* a part leaves it as it is.  NoCardText is the text None.
NoCardText == << <<>> >>

CARD_RANKS ==
    ("2" :> 2) @@ ("3" :> 3) @@ ("4" :> 4) @@ ("5" :> 5) @@ ("6" :> 6) @@ ("7" :> 7)
        @@ ("8" :> 8) @@ ("9" :> 9) @@ ("T" :> 10) @@ ("J" :> 11) @@ ("Q" :> 12)
        @@ ("K" :> 13) @@ ("A" :> 14)

\* str.upper() of one character
upper(c) ==
    CASE c = "h" -> "H"
      [] c = "k" -> "K"
      [] c = "x" -> "X"
      [] OTHER -> c

\* parse_cards_text returning the cards of the well-formed parts
parse_cards_text_skipping(text) ==
    IF text = NoCardText \/ text = <<>> THEN <<>>
    ELSE LET good(part) == /\ Len(part) = 2
                           /\ upper(part[1]) \in SUITS
                           /\ upper(part[2]) \in DOMAIN CARD_RANKS
             kept == SelectSeq(text, good)
         IN  [ i \in 1..Len(kept) |-> <<upper(kept[i][1]), CARD_RANKS[upper(kept[i][2])]>> ]

\* cards.parse_cards_text: the (suit, rank_value) of each card; the third
\* component of the tuple is the two of them written together
parse_cards_text(text) ==
    IF text = NoCardText \/ text = <<>> THEN <<>>
    ELSE IF \E i \in 1..Len(text) :
                \/ Len(text[i]) # 2
                \/ upper(text[i][1]) \notin SUITS
                \/ upper(text[i][2]) \notin DOMAIN CARD_RANKS
         THEN <<>>
         ELSE [ i \in 1..Len(text) |-> <<upper(text[i][1]), CARD_RANKS[upper(text[i][2])]>> ]

\* cbet_utils._parse_cards: as parse_cards_text, the characters taken as
\* they are written
parse_cards(text) ==
    IF text = NoCardText \/ text = <<>> THEN <<>>
    ELSE IF \E i \in 1..Len(text) :
                \/ Len(text[i]) # 2
                \/ text[i][1] \notin SUITS
                \/ text[i][2] \notin DOMAIN CARD_RANKS
         THEN <<>>
         ELSE [ i \in 1..Len(text) |-> <<text[i][1], CARD_RANKS[text[i][2]]>> ]

RANK_VALUES == CARD_RANKS
SUIT_CHARS == {"C", "D", "H", "S"}
BROADWAY_RANKS == {"J", "Q", "K", "A"}

\* token.replace("/", "")
without_slash(token) == SelectSeq(token, LAMBDA c : c # "/")

\* token.replace("10", "T"), from the left
RECURSIVE replace_ten(_)
replace_ten(token) ==
    IF Len(token) < 2 THEN token
    ELSE IF token[1] = "1" /\ token[2] = "0"
         THEN <<"T">> \o replace_ten(SubSeq(token, 3, Len(token)))
         ELSE <<token[1]>> \o replace_ten(Tail(token))

NoCard == [rank |-> None, suit |-> None]

\* _parse_token that reads the suit-first writing only
parse_token_suit_first(raw) ==
    LET stripped == without_slash(raw)
        token == replace_ten([ i \in 1..Len(stripped) |-> upper(stripped[i]) ])
    IN  IF stripped = <<>> THEN NoCard
        ELSE IF Len(token) < 2 THEN NoCard
        ELSE IF token[1] \in SUIT_CHARS /\ token[2] \in DOMAIN RANK_VALUES
             THEN [rank |-> token[2], suit |-> token[1]]
        ELSE NoCard

\* textures._parse_token: the Card, NoCard for None
parse_token(raw) ==
    LET stripped == without_slash(raw)
        token == replace_ten([ i \in 1..Len(stripped) |-> upper(stripped[i]) ])
    IN  IF stripped = <<>> THEN NoCard
        ELSE IF Len(token) < 2 THEN NoCard
        ELSE IF token[1] \in DOMAIN RANK_VALUES /\ token[2] \in SUIT_CHARS
             THEN [rank |-> token[1], suit |-> token[2]]
        ELSE IF token[1] \in SUIT_CHARS /\ token[2] \in DOMAIN RANK_VALUES
             THEN [rank |-> token[2], suit |-> token[1]]
        ELSE IF token[Len(token)] \in SUIT_CHARS /\ token[1] \in DOMAIN RANK_VALUES
             THEN [rank |-> token[1], suit |-> token[Len(token)]]
        ELSE NoCard

\* textures.parse_flop: the cards of the parts that _parse_token reads
parse_flop(text) ==
    IF text = NoCardText \/ text = <<>> THEN <<>>
    ELSE LET cards == [ i \in 1..Len(text) |-> parse_token(text[i]) ]
         IN  SelectSeq(cards, LAMBDA card : card # NoCard)

rank_value(card) == RANK_VALUES[card.rank]

suits_on(cards) == { cards[i].suit : i \in DOMAIN cards }

\* _has_pair
has_pair(cards) ==
    Len(cards) # Cardinality({ cards[i].rank : i \in DOMAIN cards })

\* _is_connected
is_connected(cards) ==
    IF Len(cards) # 3 THEN FALSE
    ELSE LET values == { rank_value(cards[i]) : i \in DOMAIN cards }
             wheel == { IF v = 14 THEN 1 ELSE v : v \in values }
             spread(vs) == highest(vs) - (CHOOSE v \in vs : \A w \in vs : v <= w)
         IN  IF spread(values) <= 4 THEN TRUE
             ELSE IF 14 \in values THEN spread(wheel) <= 4
             ELSE FALSE

\* _two_broadways
two_broadways(cards) ==
    Cardinality({ i \in DOMAIN cards : cards[i].rank \in BROADWAY_RANKS }) >= 2

\* the keys of FLOP_TEXTURE_SPECS in their order
FLOP_TEXTURE_KEYS ==
    << "rainbow", "monotone", "two_tone", "paired", "connected", "ace_high", "low", "high" >>

\* the predicate of the texture with the key
predicate(key, cards) ==
    CASE key = "rainbow" -> Cardinality(suits_on(cards)) = 3
      [] key = "monotone" -> Cardinality(suits_on(cards)) = 1 /\ Len(cards) = 3
      [] key = "two_tone" -> Cardinality(suits_on(cards)) = 2
      [] key = "paired" -> has_pair(cards)
      [] key = "connected" -> is_connected(cards)
      [] key = "ace_high" ->
            cards # <<>> /\ highest({ rank_value(cards[i]) : i \in DOMAIN cards }) = 14
      [] key = "low" ->
            cards # <<>> /\ \A i \in DOMAIN cards : rank_value(cards[i]) <= 10
      [] key = "high" -> two_broadways(cards)

\* detect_textures, as texture_keys lists it: the keys of the matching specs
detect_textures(flop_text) ==
    LET cards == parse_flop(flop_text)
    IN  IF Len(cards) # 3 THEN <<>>
        ELSE SelectSeq(FLOP_TEXTURE_KEYS, LAMBDA key : predicate(key, cards))

\* ------------------------------------------------ a text of cards is read
VARIABLES
    card_text,      \* the text given
    card_parser,    \* the function that reads it
    cards_parsed,   \* the (suit, rank) pairs of the cards it returns
    textures_found, \* the texture keys detect_textures returns
    cards_read      \* the call has returned

tvars == <<card_text, card_parser, cards_parsed, textures_found, cards_read>>

\* the king of hearts and the ten of hearts in several writings, two other
\* cards, and parts that are no card
CardParts ==
    { <<"H", "K">>, <<"K", "H">>, <<"h", "k">>, <<"K", "/", "H">>,
      <<"H", "T">>, <<"H", "1", "0">>, <<"1", "0", "H">>,
      <<"D", "A">>, <<"S", "Q">>,
      <<"X", "X">>, <<"H">>, <<"K", "x", "H">> }

\* None and the texts of at most MaxParts parts
CardTexts ==
    {NoCardText} \cup UNION { [1..n -> CardParts] : n \in 0..MaxParts }

CardParsers == {"parse_cards_text", "_parse_cards", "detect_textures"}

\* no text is read
CardsIdle ==
    /\ card_text = NoCardText /\ card_parser = None
    /\ cards_parsed = <<>> /\ textures_found = <<>> /\ cards_read = TRUE

\* ------------------------------------- the loaders' loops over the rows
\* A row of HandHistories is one of: "null" (HandHistory is NULL), "blank"
\* (an empty text), "broken" (a text that is not well-formed XML), "quiet"
\* (a hand in which the walker finds no event), "betting" (a hand in which
\* it finds one).  For build_response_curves, whose loop is over the hands
\* of the warehouse tables, a hand is "unseated" (no seats or no big blind
\* known for it) or one of the last two.
VARIABLES
    rows,        \* the rows the loop goes over
    loading,     \* the function that loads them
    max_hands,   \* its max_hands, NoLimit for None
    cursor,      \* number of rows the loop has taken
    loaded,      \* `events`: the number of the row each event came from
    walked,      \* number of hands the walker (process_hand) has gone through
    raised,      \* the exception that left the function, None if none
    returned     \* the function has returned

ovars == <<rows, loading, max_hands, cursor, loaded, walked, raised, returned>>

NoLimit == 0 - 1

RowKinds == {"null", "blank", "broken", "quiet", "betting"}
HandKinds == {"unseated", "quiet", "betting"}

RowLoaders ==
    {"collect_flop_bet_events", "load_cbet_events", "load_turn_events", "load_river_events"}

\* ET.fromstring(row["HandHistory"]): the exception it raises, None if it
\* returns the tree
fromstring_raises(kind) ==
    CASE kind = "null" -> "TypeError"
      [] kind \in {"blank", "broken"} -> "ParseError"
      [] OTHER -> None

\* the events the walker appends for the row at index i
events_of_row(kind, i) == IF kind = "betting" THEN <<i>> ELSE <<>>

\* events[:max_hands], what `del events[max_hands:]` leaves
truncated(events, limit) ==
    IF Len(events) <= limit THEN events ELSE SubSeq(events, 1, limit)

\* nothing is loaded
LoadIdle ==
    /\ rows = <<>> /\ loading = None /\ max_hands = NoLimit /\ cursor = 0
    /\ loaded = <<>> /\ walked = 0 /\ raised = None /\ returned = TRUE

\* ------------------------------------------------- the loaders' caches
\* The content of a cache file, and of what a loader returns, is a pair:
\* <<"list", n>> the events (or scenarios) derived from the source when it
\* held n hands, <<"old", n>> the same in the format load_cbet_events no
\* longer accepts (no "in_position" or no "responses" in its first item),
\* <<"sample", 0>> the built-in sample scenarios, <<"none", 0>> no file.
VARIABLES
    cache_loader,      \* the function that loads
    cache_file,        \* the content of the file at cache_path
    path_given,        \* a cache_path is given (load_cbet_events may have none)
    source_hands,      \* the number of hands the source holds
    source_available,  \* source.is_available()
    force,             \* the force argument of the last call
    result             \* what the last call returned

kvars == <<cache_loader, cache_file, path_given, source_hands, source_available, force, result>>

NoFile == <<"none", 0>>
NotLoaded == <<"not loaded", 0>>
SAMPLE_SCENARIOS == <<"sample", 0>>
NoEvents == <<"list", 0>>

\* the events the loader's loop derives from the source
derived(hands) == <<"list", hands>>

\* load_cbet_events: what it returns and what it leaves in the file
load_cbet_events(file, given, forced, hands) ==
    IF given /\ file # NoFile /\ ~forced /\ file[1] # "old"
    THEN [returned |-> file, file |-> file]
    ELSE [returned |-> derived(hands), file |-> IF given THEN derived(hands) ELSE file]

\* load_response_curve_scenarios
load_response_curve_scenarios(file, forced) ==
    LET left == IF forced THEN NoFile ELSE file
    IN  IF left # NoFile /\ left # NoEvents
        THEN [returned |-> left, file |-> left]
        ELSE [returned |-> SAMPLE_SCENARIOS, file |-> left]

\* load_preflop_shove_events
load_preflop_shove_events(file, forced, available, hands) ==
    IF ~forced /\ file # NoFile THEN [returned |-> file, file |-> file]
    ELSE IF ~available THEN [returned |-> NoEvents, file |-> file]
    ELSE [returned |-> derived(hands), file |-> derived(hands)]

CacheLoaders ==
    {"load_cbet_events", "load_response_curve_scenarios", "load_preflop_shove_events"}

CacheIdle ==
    /\ cache_loader = None /\ cache_file = NoFile /\ path_given = FALSE
    /\ source_hands = 0 /\ source_available = FALSE /\ force = FALSE
    /\ result = NotLoaded

\* ------- services/preflop_response_curves_builder.py, ResponseCurveBuilder
SITUATION_KEYS ==
    {"folded_to_hero", "facing_limpers", "facing_single_raise",
     "facing_raise_with_callers", "facing_three_bet"}

RAISE_ACTIONS == {"raise", "bet", "all-in"}
CALL_ACTIONS == {"call"}
IGNORE_ACTIONS == {"check", "timeout"}
POST_ACTIONS == {"post"}

\* _situation_key with the callers since the raise not looked at
situation_key_any_raise(n_raises, since_raise, before_raise) ==
    IF n_raises = 0
    THEN IF before_raise > 0 THEN "facing_limpers" ELSE "folded_to_hero"
    ELSE IF n_raises = 1 THEN "facing_single_raise"
    ELSE "facing_three_bet"

\* _situation_key
situation_key(n_raises, since_raise, before_raise) ==
    IF n_raises = 0
    THEN IF before_raise > 0 THEN "facing_limpers" ELSE "folded_to_hero"
    ELSE IF n_raises = 1 /\ since_raise = 0 THEN "facing_single_raise"
    ELSE IF n_raises = 1 /\ since_raise > 0 THEN "facing_raise_with_callers"
    ELSE "facing_three_bet"

\* _classify_response: the first action after idx that is neither seatless
\* nor a post, and is the hero's or is no check and no fold, decides
classify_response(acts, idx, hero_seat) ==
    LET deciding == { j \in (idx + 1)..Len(acts) :
                        /\ acts[j].seat_no # 0
                        /\ acts[j].action \notin POST_ACTIONS
                        /\ \/ acts[j].seat_no = hero_seat
                           \/ acts[j].action \notin (IGNORE_ACTIONS \cup {"fold"}) }
    IN  IF deciding = {} THEN "fold"
        ELSE LET j == CHOOSE k \in deciding : \A l \in deciding : k <= l
             IN  IF acts[j].seat_no = hero_seat THEN "fold"
                 ELSE IF acts[j].action \in CALL_ACTIONS THEN "call"
                 ELSE IF acts[j].action \in RAISE_ACTIONS THEN "raise"
                 ELSE "fold"

\* _count_players_to_act
count_players_to_act(acts, idx, hero_seat) ==
    Cardinality({ acts[j].seat_no : j \in (idx + 1)..Len(acts) } \ {0, hero_seat})

\* BucketAggregate(), and BucketAggregate.register that counts every
\* response as a fold
NewBucket ==
    [count |-> 0, fold_count |-> 0, call_count |-> 0, raise_count |-> 0,
     pot_sum |-> 0, invest_sum |-> 0, final_pot_sum |-> 0, players_remaining_sum |-> 0]

register_as_fold(b, response, pot_before, invest, final_pot, final_players) ==
    [count |-> b.count + 1,
     fold_count |-> b.fold_count + 1,
     call_count |-> b.call_count,
     raise_count |-> b.raise_count,
     pot_sum |-> b.pot_sum + pot_before,
     invest_sum |-> b.invest_sum + invest,
     final_pot_sum |-> b.final_pot_sum + final_pot,
     players_remaining_sum |-> b.players_remaining_sum + final_players]

\* BucketAggregate.register without the `elif response == "call"` branch
register_without_call(b, response, pot_before, invest, final_pot, final_players) ==
    [count |-> b.count + 1,
     fold_count |-> b.fold_count + (IF response = "fold" THEN 1 ELSE 0),
     call_count |-> b.call_count,
     raise_count |-> b.raise_count + (IF response = "raise" THEN 1 ELSE 0),
     pot_sum |-> b.pot_sum + pot_before,
     invest_sum |-> b.invest_sum + invest,
     final_pot_sum |-> b.final_pot_sum + final_pot,
     players_remaining_sum |-> b.players_remaining_sum + final_players]

\* BucketAggregate.register
register(b, response, pot_before, invest, final_pot, final_players) ==
    [count |-> b.count + 1,
     fold_count |-> b.fold_count + (IF response = "fold" THEN 1 ELSE 0),
     call_count |-> b.call_count + (IF response = "call" THEN 1 ELSE 0),
     raise_count |-> b.raise_count + (IF response = "raise" THEN 1 ELSE 0),
     pot_sum |-> b.pot_sum + pot_before,
     invest_sum |-> b.invest_sum + invest,
     final_pot_sum |-> b.final_pot_sum + final_pot,
     players_remaining_sum |-> b.players_remaining_sum + final_players]

\* a defaultdict: the value at the key, the default where there is none
get_or(dict, key, default) == IF key \in DOMAIN dict THEN dict[key] ELSE default

\* ScenarioAggregate.register
NewScenario == [samples |-> 0, situation_counts |-> <<>>, buckets |-> <<>>]

scenario_register(sc, event, final_pot, final_players) ==
    [samples |-> sc.samples + 1,
     situation_counts |->
        (event.situation_key :> (get_or(sc.situation_counts, event.situation_key, 0) + 1))
            @@ sc.situation_counts,
     buckets |->
        (event.bet_bucket :> register(get_or(sc.buckets, event.bet_bucket, NewBucket),
                                      event.response, event.pot_before, event.invest,
                                      final_pot, final_players))
            @@ sc.buckets]

\* ResponseCurveBuilder._scenario: the key of the event's scenario
scenario_key(event) ==
    <<event.position, event.stack_bucket, event.pot_bucket, event.vpip_ahead,
      event.players_behind>>

\* the loop at the end of process_hand over hero_events
RECURSIVE register_events(_, _, _, _)
register_events(scs, events, final_pot, final_players) ==
    IF events = <<>> THEN scs
    ELSE LET event == Head(events)
             key == scenario_key(event)
         IN  register_events(
                (key :> scenario_register(get_or(scs, key, NewScenario), event,
                                          final_pot, final_players)) @@ scs,
                Tail(events), final_pot, final_players)

\* ------------------------------------------------ process_hand on a hand
\* Amounts are in big blinds (bb_c is 1).  seat_no 0 stands for None.
VARIABLES
    hand_actions,       \* `actions`, the pre-flop rows of the hand in order
    action_idx,         \* number of rows the loop has taken
    pot_c,
    player_contrib,
    raise_count,
    calls_since_raise,
    calls_total,
    vpipped_players,
    folded_seats,
    hero_events,        \* each with `at`, the index of its raise
    scenarios,          \* self._scenarios
    processed           \* process_hand has returned

uvars == <<hand_actions, action_idx, pot_c, player_contrib, raise_count, calls_since_raise,
           calls_total, vpipped_players, folded_seats, hero_events, scenarios, processed>>

\* `seats`: seat 1 has a position and a stack, seat 2 a position and no
\* stack, seat 3 is not in the table of seats
SeatRows ==
    (1 :> [position |-> "BTN", stack_start_c |-> 40])
    @@ (2 :> [position |-> "BB", stack_start_c |-> 0])

CurveSeats == 0..3

CurveActions ==
    [seat_no : CurveSeats, action : {"post", "call", "raise"}, inc_c : 0..1]
    \cup [seat_no : CurveSeats, action : {"check", "fold", "straddle"}, inc_c : {0}]

NoContrib == [s \in CurveSeats |-> 0]

CurveIdle ==
    /\ hand_actions = <<>> /\ action_idx = 0 /\ pot_c = 0 /\ player_contrib = NoContrib
    /\ raise_count = 0 /\ calls_since_raise = 0 /\ calls_total = 0
    /\ vpipped_players = {} /\ folded_seats = {} /\ hero_events = <<>>
    /\ scenarios = <<>> /\ processed = TRUE

\* ------------- services/preflop_response_curves.py, _scenario_from_dict
STACK_BUCKET_LABEL_TO_KEY ==
    ("0-30 bb" :> "bb_0_30") @@ ("30-60 bb" :> "bb_30_60")
    @@ ("60-100 bb" :> "bb_60_100") @@ ("100+ bb" :> "bb_100_plus")

STACK_BUCKET_KEY_TO_LABEL ==
    ("bb_0_30" :> "0-30 bb") @@ ("bb_30_60" :> "30-60 bb")
    @@ ("bb_60_100" :> "60-100 bb") @@ ("bb_100_plus" :> "100+ bb")

\* in big blinds
STACK_BUCKET_KEY_TO_APPROX ==
    ("bb_0_30" :> <<20, 1>>) @@ ("bb_30_60" :> <<45, 1>>)
    @@ ("bb_60_100" :> <<80, 1>>) @@ ("bb_100_plus" :> <<140, 1>>)

POT_BUCKET_LABEL_TO_KEY ==
    ("Blinds Only (~1.5 bb)" :> "pot_blinds") @@ ("2-4 bb" :> "pot_small")
    @@ ("4-7 bb" :> "pot_medium") @@ ("7-12 bb" :> "pot_large") @@ ("12+ bb" :> "pot_huge")

POT_BUCKET_KEY_TO_LABEL ==
    ("pot_blinds" :> "Blinds Only (~1.5 bb)") @@ ("pot_small" :> "2-4 bb")
    @@ ("pot_medium" :> "4-7 bb") @@ ("pot_large" :> "7-12 bb") @@ ("pot_huge" :> "12+ bb")

\* A dict of the cache file is written as its texts and its numbers apart.
\* data.get(name) of a text: None where the dict has no such key
data_get(data, name) == IF name \in DOMAIN data.texts THEN data.texts[name] ELSE None

\* data.get(name, default) of a number
number_get(data, name, default) ==
    IF name \in DOMAIN data.numbers THEN data.numbers[name] ELSE default

\* `a or b` on texts and None
text_or(a, b) == IF a = None \/ a = "" THEN b ELSE a

\* float(raw) of a number, 0.0 where it raises (raw is None, written NoRatio)
float_or_zero(raw) == IF raw = NoRatio THEN <<0, 1>> ELSE raw

\* _scenario_from_dict: the stack and pot fields and players_behind of the
\* scenario it returns
scenario_from_dict(data) ==
    LET stack_bucket_key_0 == text_or(data_get(data, "stack_bucket_key"), "")
        stack_depth ==
            text_or(data_get(data, "stack_depth"),
                    get_or(STACK_BUCKET_KEY_TO_LABEL, stack_bucket_key_0, ""))
        stack_bucket_key ==
            IF stack_bucket_key_0 = "" /\ stack_depth # ""
            THEN get_or(STACK_BUCKET_LABEL_TO_KEY, stack_depth, "")
            ELSE stack_bucket_key_0
        pot_bucket_label_0 ==
            text_or(data_get(data, "pot_bucket"),
                    IF "pot_bucket_label" \in DOMAIN data.texts
                    THEN data.texts["pot_bucket_label"] ELSE "")
        pot_bucket_key_0 == text_or(data_get(data, "pot_bucket_key"), "")
        pot_bucket_key ==
            IF pot_bucket_key_0 = "" /\ pot_bucket_label_0 \notin {"", None}
            THEN get_or(POT_BUCKET_LABEL_TO_KEY, pot_bucket_label_0, "")
            ELSE pot_bucket_key_0
        pot_bucket_label ==
            IF pot_bucket_label_0 \in {"", None} /\ pot_bucket_key # ""
            THEN get_or(POT_BUCKET_KEY_TO_LABEL, pot_bucket_key, "")
            ELSE pot_bucket_label_0
        players_behind_raw ==
            IF number_get(data, "players_behind", NoRatio) = NoRatio
            THEN number_get(data, "players_to_act", <<0, 1>>)
            ELSE data.numbers["players_behind"]
        effective_stack_bb_0 == float_or_zero(number_get(data, "effective_stack_bb", NoRatio))
        effective_stack_bb ==
            IF effective_stack_bb_0[1] <= 0 /\ stack_bucket_key # ""
            THEN get_or(STACK_BUCKET_KEY_TO_APPROX, stack_bucket_key, <<0, 1>>)
            ELSE effective_stack_bb_0
        pot_size_bb_raw ==
            number_get(data, "pot_size_bb", number_get(data, "pot_before_bb", <<0, 1>>))
    IN  [stack_bucket_key |-> stack_bucket_key,
         stack_depth |-> stack_depth,
         players_behind |-> float_or_zero(players_behind_raw)[1],
         pot_bucket_key |-> pot_bucket_key,
         pot_bucket |-> text_or(pot_bucket_label, ""),
         pot_size_bb |-> float_or_zero(pot_size_bb_raw),
         effective_stack_bb |-> effective_stack_bb]

\* ------------------------------------------------ a cached scenario is read
VARIABLES
    scenario_data,     \* the item of the cache file, a dict
    scenario,          \* what _scenario_from_dict returns for it
    scenario_read      \* it has returned

svars == <<scenario_data, scenario, scenario_read>>

NoScenario == [pot_bucket_key |-> None]

\* the dicts with some of the keys, each with one of the values
dicts_of(values) ==
    UNION { { d \in [keys -> UNION { values[k] : k \in keys }] :
                \A k \in keys : d[k] \in values[k] } : keys \in SUBSET DOMAIN values }

\* the values the cached item may hold under each key: amounts are whole
\* or half big blinds
ScenarioTexts ==
    ("stack_bucket_key" :> {"bb_30_60"})
    @@ ("stack_depth" :> {"30-60 bb", "deep"})
    @@ ("pot_bucket_key" :> {"pot_small", ""})
    @@ ("pot_bucket" :> {"4-7 bb", "big"})
    @@ ("pot_bucket_label" :> {"7-12 bb"})

ScenarioNumbers ==
    ("pot_size_bb" :> {<<7, 2>>, <<5, 1>>})
    @@ ("pot_before_bb" :> {<<2, 1>>})
    @@ ("effective_stack_bb" :> {<<0, 1>>, <<50, 1>>})
    @@ ("players_to_act" :> {<<2, 1>>})
    @@ ("players_behind" :> {<<3, 1>>})

ScenarioIdle ==
    /\ scenario_data = [texts |-> <<>>, numbers |-> <<>>] /\ scenario = NoScenario /\ scenario_read = TRUE

\* ----------------------------- services/preflop_shove.py, the shove ranges
RANKS == <<"A", "K", "Q", "J", "T", "9", "8", "7", "6", "5", "4", "3", "2">>

\* RANK_INDEX[rank], counted from 1 as the rows and columns of the grid are
\* here: row 0 and column 0 of the payload are row 1 and column 1
RANK_INDEX(rank) == CHOOSE i \in 1..Len(RANKS) : RANKS[i] = rank

\* min_bb and max_bb in big blinds, -1 where the definition has none
RANGE_DEFINITIONS ==
    << [id |-> "first_to_bet_leq30", category |-> "First to Bet Shove", min_bb |-> -1, max_bb |-> 30],
       [id |-> "first_to_bet_gt30", category |-> "First to Bet Shove", min_bb |-> 30, max_bb |-> -1],
       [id |-> "three_bet_shove", category |-> "3-Bet Shove", min_bb |-> -1, max_bb |-> -1],
       [id |-> "four_bet_shove", category |-> "4-Bet Shove", min_bb |-> -1, max_bb |-> -1],
       [id |-> "five_plus_bet_shove", category |-> "5+ Bet Shove", min_bb |-> -1, max_bb |-> -1] >>

HAND_GROUPS_ORDER ==
    <<"AA", "KK", "QQ", "JJ", "TT", "Other Pair", "AK", "ATs - AQs", "A2s - A9s",
      "ATo - AQo", "A2o - A9o", "Other Broadway Pair", "Other">>

SUMMARY2_GROUPS_ORDER ==
    <<"KK - AA", "TT - QQ", "22 - 99", "AK", "Any Other Ace", "All Others">>

SHOVE_BROADWAY_RANKS == {"A", "K", "Q", "J", "T"}

BROADWAY_COMBOS ==
    { {"K", "Q"}, {"K", "J"}, {"K", "T"}, {"Q", "J"}, {"Q", "T"}, {"J", "T"} }

NotParsed == << >>

\* _parse_hole_cards: the two (rank, suit), NotParsed for None; the text is
\* the sequence of its parts
parse_hole_cards(hole) ==
    IF Len(hole) # 2 THEN NotParsed
    ELSE IF \E i \in 1..2 :
                \/ Len(hole[i]) # 2
                \/ upper(hole[i][1]) \notin SUITS
                \/ upper(hole[i][2]) \notin DOMAIN CARD_RANKS
         THEN NotParsed
         ELSE [ i \in 1..2 |-> <<upper(hole[i][2]), upper(hole[i][1])>> ]

\* _grid_position with the pair's cell for every two cards
grid_position_of_first(cards) == <<cards[1][1], cards[1][1]>>

\* _grid_position: the row and the column
grid_position(cards) ==
    LET rank_a == cards[1][1]
        rank_b == cards[2][1]
        high == IF RANK_INDEX(rank_a) <= RANK_INDEX(rank_b) THEN rank_a ELSE rank_b
        low == IF RANK_INDEX(rank_a) <= RANK_INDEX(rank_b) THEN rank_b ELSE rank_a
    IN  IF rank_a = rank_b THEN <<rank_a, rank_a>>
        ELSE IF cards[1][2] = cards[2][2] THEN <<high, low>>
        ELSE <<low, high>>

\* _classify_hand_group: the primary and the secondary group
classify_hand_group(cards) ==
    LET rank_a == cards[1][1]
        rank_b == cards[2][1]
        suited == cards[1][2] = cards[2][2]
        combo == {rank_a, rank_b}
        other == CHOOSE r \in combo : r # "A"
        low_ranks == {"2", "3", "4", "5", "6", "7", "8", "9"}
        rest == IF combo \in BROADWAY_COMBOS THEN <<"Other Broadway Pair", "All Others">>
                ELSE <<"Other", "All Others">>
    IN  IF rank_a = rank_b
        THEN CASE rank_a = "A" -> <<"AA", "KK - AA">>
               [] rank_a = "K" -> <<"KK", "KK - AA">>
               [] rank_a = "Q" -> <<"QQ", "TT - QQ">>
               [] rank_a = "J" -> <<"JJ", "TT - QQ">>
               [] rank_a = "T" -> <<"TT", "TT - QQ">>
               [] rank_a \in low_ranks -> <<"Other Pair", "22 - 99">>
               [] rank_a \in SHOVE_BROADWAY_RANKS -> <<"Other Broadway Pair", "All Others">>
               [] OTHER -> <<"Other Pair", "All Others">>
        ELSE IF combo = {"A", "K"} THEN <<"AK", "AK">>
        ELSE IF "A" \in combo
        THEN IF suited /\ other \in {"T", "J", "Q"} THEN <<"ATs - AQs", "Any Other Ace">>
             ELSE IF suited /\ other \in low_ranks THEN <<"A2s - A9s", "Any Other Ace">>
             ELSE IF ~suited /\ other \in {"T", "J", "Q"} THEN <<"ATo - AQo", "Any Other Ace">>
             ELSE IF ~suited /\ other \in low_ranks THEN <<"A2o - A9o", "Any Other Ace">>
             ELSE rest
        ELSE rest

\* _filter_events
filter_events(events, category, min_bb, max_bb) ==
    SelectSeq(events, LAMBDA e :
        /\ e.category = category
        /\ ~(min_bb # -1 /\ e.bet_amount_bb <= min_bb)
        /\ ~(max_bb # -1 /\ e.bet_amount_bb > max_bb))

\* the events of the list whose hole cards can be parsed
parsed_events(events) ==
    SelectSeq(events, LAMBDA e : parse_hole_cards(e.hole_cards) # NotParsed)

\* _build_grid: the count of each cell
build_grid(events) ==
    LET parsed == parsed_events(events)
        cells == [ i \in DOMAIN parsed |-> grid_position(parse_hole_cards(parsed[i].hole_cards)) ]
    IN  [ row \in 1..Len(RANKS) |-> [ col \in 1..Len(RANKS) |->
            Cardinality({ i \in DOMAIN cells : cells[i] = <<RANKS[row], RANKS[col]>> }) ] ]

\* round(count / total * 100.0, 3), in thousandths of a percent
percent_rounded(count, total) ==
    IF total = 0 THEN 0 ELSE (2 * count * 100000 + total) \div (2 * total)

\* count / total * 100.0 as a float n / d, 0.0 when total is 0
percent_of(count, total) == IF total = 0 THEN <<0, 1>> ELSE <<count * 100, total>>

\* _build_summaries: the percent of each group; which is 1 for the primary
\* groups and 2 for the secondary ones
build_summary(events, groups, which) ==
    LET parsed == parsed_events(events)
        labels_of == [ i \in DOMAIN parsed |->
                        classify_hand_group(parse_hole_cards(parsed[i].hole_cards))[which] ]
    IN  [ g \in 1..Len(groups) |->
            [group |-> groups[g],
             percent |-> percent_of(Cardinality({ i \in DOMAIN labels_of : labels_of[i] = groups[g] }),
                                    Len(parsed))] ]

\* get_shove_range_payload on a list of events that is not empty
get_shove_range_payload(events) ==
    [ d \in 1..Len(RANGE_DEFINITIONS) |->
        LET definition == RANGE_DEFINITIONS[d]
            subset == filter_events(events, definition.category, definition.min_bb,
                                    definition.max_bb)
            grid == build_grid(subset)
            total == Len(parsed_events(subset))
        IN  [id |-> definition.id,
             category |-> definition.category,
             events |-> total,
             values |-> [ row \in 1..Len(RANKS) |-> [ col \in 1..Len(RANKS) |->
                            percent_rounded(grid[row][col], total) ] ],
             summary_primary |-> build_summary(subset, HAND_GROUPS_ORDER, 1),
             summary_secondary |-> build_summary(subset, SUMMARY2_GROUPS_ORDER, 2),
             summary_events |-> total] ]

\* ------------------------------------------------ a payload of shove ranges
VARIABLES
    shove_events,     \* the events given to get_shove_range_payload
    shove_payload,    \* what it returns
    shove_done        \* it has returned

xvars == <<shove_events, shove_payload, shove_done>>

\* the parts of a text of hole cards: five cards and a part that is none
HoleParts ==
    { <<"H", "A">>, <<"H", "K">>, <<"D", "A">>, <<"S", "K">>, <<"D", "9">>, <<"X", "X">> }

\* the texts of two parts, and one of a single part
HoleTexts == [1..2 -> HoleParts] \cup { << <<"H", "A">> >> }

ShoveEvents ==
    [hole_cards : HoleTexts,
     category : {"First to Bet Shove", "3-Bet Shove"},
     bet_amount_bb : {20, 80}]

ShoveIdle ==
    /\ shove_events = <<>> /\ shove_payload = <<>> /\ shove_done = TRUE

\* ------------- services/flop_response_matrix.py, build_flop_response_payload
\* The events are read as the JSON caches hold them.  A ratio field is
\* [kind, value]: no value, a float, a text (value is the float it spells,
\* NoRatio when it spells none), or an int beyond the floats.  A responses
\* field is [kind, items]: a list of items, each a mapping or not, or a
\* value that cannot be iterated.  None in bet_type, bucket_key,
\* villain_outcome or a response stands for any value that is not a string.
VARIABLES
    pay,          \* locals of _aggregate_events
    pay_before,   \* the locals before the event read last
    pay_last,     \* the event read last
    pay_read,     \* number of events read
    pay_raised,   \* the exception that left the function, None if none did
    pay_result,   \* the payload returned
    pay_done      \* the function has returned

yvars == <<pay, pay_before, pay_last, pay_read, pay_raised, pay_result, pay_done>>

\* `float(ratio_raw) if ratio_raw is not None else None` in its try block:
\* TypeError and ValueError give None, any other exception leaves
ratio_float(ratio_raw) ==
    CASE ratio_raw.kind = "float" -> [raised |-> None, value |-> ratio_raw.value]
      [] ratio_raw.kind = "str" -> [raised |-> None, value |-> ratio_raw.value]
      [] ratio_raw.kind = "huge int" -> [raised |-> "OverflowError", value |-> NoRatio]
      [] OTHER -> [raised |-> None, value |-> NoRatio]

\* the responses _resolve_outcome looks at: none unless the value can be
\* iterated, and of its items the mappings
mappings_of(responses_raw) ==
    IF responses_raw.kind # "list" THEN <<>>
    ELSE SelectSeq(responses_raw.items, LAMBDA item : item.mapping)

\* the event with its ratio as a float and its responses as mappings
event_read(raw) ==
    [ hero_position |-> raw.hero_position, bet_type |-> raw.bet_type,
      position |-> raw.position, in_position |-> raw.in_position,
      player_count |-> raw.player_count, is_all_in |-> raw.is_all_in,
      is_one_bb |-> raw.is_one_bb, bucket_key |-> raw.bucket_key,
      ratio |-> ratio_float(raw.ratio).value,
      villain_outcome |-> raw.villain_outcome,
      responses |-> mappings_of(raw.responses) ]

\* one turn of the loop of _aggregate_events on such an event: the
\* exception that leaves it, if one does, and the locals after it
payload_event(st, raw) ==
    LET event == event_read(raw)
        float_raised == ratio_float(raw.ratio).raised
    IN  IF normalise_bet_type(raw.bet_type) = None
        THEN [raised |-> None, st |-> aggregate_event(st, event)]
        ELSE IF ~raw.is_all_in /\ ~raw.is_one_bb /\ raw.bucket_key = None
                /\ float_raised # None
        THEN [raised |-> float_raised, st |-> st]
        ELSE IF bucket_for_event(event) \notin (BUCKET_KEYS \cup {None})
        THEN [raised |-> "KeyError", st |-> st]
        ELSE [raised |-> None, st |-> aggregate_event(st, event)]

\* the payload but for its three fixed lists
payload_of(st) ==
    [ scenarios |-> scenarios_of(st.aggregate),
      player_counts |-> st.player_counts,
      hero_positions |-> st.hero_positions ]

NoPayload == [ scenarios |-> <<>>, player_counts |-> {}, hero_positions |-> {} ]

RatioFields ==
    { [kind |-> "None", value |-> NoRatio],
      [kind |-> "float", value |-> <<30, 100>>],
      [kind |-> "float", value |-> NaNRatio],
      [kind |-> "str", value |-> NoRatio],
      [kind |-> "huge int", value |-> NoRatio] }

ResponsesFields ==
    { [kind |-> "int", items |-> <<>>],
      [kind |-> "list", items |-> <<[mapping |-> FALSE, response |-> None],
                                    [mapping |-> TRUE, response |-> "Call"]>>],
      [kind |-> "list", items |-> <<[mapping |-> TRUE, response |-> None]>>] }

PayloadEvents ==
    [ hero_position : {"BTN"}, bet_type : {None, "cbet"},
      position : {None}, in_position : {TRUE}, player_count : {2},
      is_all_in : BOOLEAN, is_one_bb : {FALSE},
      bucket_key : {None, "pct_25_40", "pct_unknown"}, ratio : RatioFields,
      villain_outcome : {None, "raise"}, responses : ResponsesFields ]

NoPayloadEvent ==
    [ hero_position |-> None, bet_type |-> None, position |-> None, in_position |-> FALSE,
      player_count |-> 0, is_all_in |-> FALSE, is_one_bb |-> FALSE, bucket_key |-> None,
      ratio |-> [kind |-> "None", value |-> NoRatio], villain_outcome |-> None,
      responses |-> [kind |-> "int", items |-> <<>>] ]

\* no payload is built
PayloadIdle ==
    /\ pay = AggregateInit /\ pay_before = AggregateInit /\ pay_last = NoPayloadEvent
    /\ pay_read = 0 /\ pay_raised = None /\ pay_result = NoPayload /\ pay_done = TRUE

\* ------------------------------- services/opponent_performance.py, the
\* accumulators of get_opponent_count_performance
VOLUNTARY_TYPES == CALL_TYPES \cup RAISE_TYPES

\* the number of raises among the first n actions
raises_in(actions, n) ==
    Cardinality({ j \in 1..n : actions[j].type \in RAISE_TYPES })

\* _evaluate_preflop with vpip set by the hero's calls only
evaluate_preflop_by_calls(actions, hero) ==
    LET heros == { i \in DOMAIN actions : actions[i].player = hero }
    IN  [ vpip |-> \E i \in heros : actions[i].type \in CALL_TYPES,
          pfr |-> \E i \in heros : actions[i].type \in RAISE_TYPES,
          three_bet |-> \E i \in heros :
                            actions[i].type \in RAISE_TYPES /\ raises_in(actions, i - 1) >= 1,
          three_bet_opportunity |-> \E i \in heros : raises_in(actions, i - 1) >= 1 ]

\* _evaluate_preflop: the four flags of the hero's pre-flop actions;
\* raise_count at an action is the number of raises before it
evaluate_preflop(actions, hero) ==
    LET heros == { i \in DOMAIN actions : actions[i].player = hero }
    IN  [ vpip |-> \E i \in heros : actions[i].type \in VOLUNTARY_TYPES,
          pfr |-> \E i \in heros : actions[i].type \in RAISE_TYPES,
          three_bet |-> \E i \in heros :
                            actions[i].type \in RAISE_TYPES /\ raises_in(actions, i - 1) >= 1,
          three_bet_opportunity |-> \E i \in heros : raises_in(actions, i - 1) >= 1 ]

\* Accumulator(), with net_bb and pot_bb_sum in whole big blinds
Accumulator ==
    [ hand_count |-> 0, net_cents |-> 0, net_bb |-> 0, vpip_hands |-> 0, pfr_hands |-> 0,
      three_bet_hands |-> 0, three_bet_opportunities |-> 0, pot_bb_sum |-> 0,
      pot_samples |-> 0 ]

\* Accumulator.record
record(acc, net_cents, net_bb, flags, pot_bb) ==
    [ hand_count |-> acc.hand_count + 1,
      net_cents |-> acc.net_cents + net_cents,
      net_bb |-> acc.net_bb + net_bb,
      vpip_hands |-> acc.vpip_hands + (IF flags.vpip THEN 1 ELSE 0),
      pfr_hands |-> acc.pfr_hands + (IF flags.pfr THEN 1 ELSE 0),
      three_bet_hands |-> acc.three_bet_hands + (IF flags.three_bet THEN 1 ELSE 0),
      three_bet_opportunities |->
          acc.three_bet_opportunities + (IF flags.three_bet_opportunity THEN 1 ELSE 0),
      pot_bb_sum |-> acc.pot_bb_sum + (IF pot_bb > 0 THEN pot_bb ELSE 0),
      pot_samples |-> acc.pot_samples + (IF pot_bb > 0 THEN 1 ELSE 0) ]

\* The games of the sessions, one at a time.  The big blind is a dollar, so
\* a net of 100 cents is one big blind.  `overall` is keyed by the number of
\* opponents and `by_position` by that number and the hero's position.
VARIABLES
    overall,
    by_position,
    games_read,     \* number of games the loop has gone through
    last_flags      \* what _evaluate_preflop returned for the last game recorded

zvars == <<overall, by_position, games_read, last_flags>>

\* the pre-flop action records of a game: of the hero, of an opponent or of
\* nobody; a fold, a call, a raise, an all-in or no type
PreflopRecords == [ player : {"H", "V", None}, type : {"0", "3", "23", "7", ""} ]

PreflopActions == UNION { [1..n -> PreflopRecords] : n \in 0..MaxPreflop }

NoFlags ==
    [ vpip |-> FALSE, pfr |-> FALSE, three_bet |-> FALSE, three_bet_opportunity |-> FALSE ]

\* no games are read
PerformanceIdle ==
    /\ overall = <<>> /\ by_position = <<>> /\ games_read = MaxGames /\ last_flags = NoFlags

\* --------------------------------------------------- the hands they read
\* Player i is listed i-th and sits at seat i + 1 (i odd) or i - 1 (i even):
\* the listing is not in seat order and the seats may leave gaps.
seat_number(i) == IF i % 2 = 1 THEN i + 1 ELSE i - 1

\* the dealt player sitting next after the player, clockwise
next_dealt(name, dealt) ==
    LET higher == {q \in dealt : seat_number(q) > seat_number(name)}
        first(S) == CHOOSE q \in S : \A r \in S : seat_number(q) <= seat_number(r)
    IN  IF higher # {} THEN first(higher) ELSE first(dealt)

\* the dealt players clockwise, the one next after the player first
RECURSIVE clockwise_from(_, _, _)
clockwise_from(name, dealt, k) ==
    IF k = 0 THEN <<>>
    ELSE <<next_dealt(name, dealt)>> \o clockwise_from(next_dealt(name, dealt), dealt, k - 1)

Resolvers == {"parse_game", "position_labels", "assign_positions_from_players"}

PosIdle ==
    /\ resolver = "parse_game" /\ done = TRUE
    /\ players = <<>> /\ dealt_players = {} /\ hero_name = NoName
    /\ round_zero = <<>> /\ preflop_actors = <<>>
    /\ position_map = EmptyMap /\ position = Absent
    /\ labels = EmptyMap /\ ring = EmptyMap

\* the posts of the blinds round
posts_of(sb, bb) ==
    (IF sb # NoName THEN <<[type |-> "1", player |-> sb]>> ELSE <<>>)
    \o (IF bb # NoName THEN <<[type |-> "2", player |-> bb]>> ELSE <<>>)

NoBetYet == [p \in Players |-> "nobet"]

\* no walker reads the hand
WalkIdle ==
    /\ loader = "matrix" /\ big_blind = 0 /\ pocket = {} /\ board = FALSE
    /\ round = 0 /\ paid = 0 /\ betMade = FALSE /\ after = NoBetYet
    /\ acted = {} /\ aggr = None /\ folded = {}
    /\ fm = MatrixInit /\ cb = CbetInit /\ tu = TurnInit /\ rv = RiverInit

\* A hand the resolver goes through with: two or more listed players, at
\* most one dealer marker, the hero dealt in.  For _parse_game: at most one
\* listed player not dealt in, the small blind posted by a dealt player or
\* not at all, the big blind posted by the next dealt player after the small
\* blind (after the dealer when no small blind is posted; by any dealt
\* player when neither is there) or not at all, and the pre-flop action
\* going round clockwise from the player after the big blind, the first
\* actor acting twice.  The two builders read the listed players (the one
\* not dealt in among them), and the curves builder the small blind's post
\* as well.
PosInit ==
    /\ resolver \in Resolvers
    /\ done = FALSE
    /\ \E n \in 2..MaxSeats, dealer \in 0..MaxSeats, sitout \in 0..MaxSeats :
          /\ dealer <= n /\ sitout <= n
          /\ players = [i \in 1..n |-> [name |-> i, seat |-> seat_number(i), dealer |-> (i = dealer)]]
          /\ dealt_players = (1..n) \ {sitout}
    /\ hero_name \in dealt_players
    /\ \E sb \in {NoName} \cup dealt_players :
          \E bb \in {NoName} \cup
                    (IF sb # NoName THEN {next_dealt(sb, dealt_players)}
                     ELSE IF dealer_name_of(players) \in dealt_players
                     THEN {next_dealt(dealer_name_of(players), dealt_players)}
                     ELSE dealt_players) :
             /\ resolver = "position_labels" => sb = NoName
             /\ resolver # "parse_game" => bb = NoName
             /\ round_zero = posts_of(sb, bb)
             /\ LET from == IF bb # NoName THEN bb ELSE IF sb # NoName THEN sb
                            ELSE hero_name
                    turn == clockwise_from(from, dealt_players, Cardinality(dealt_players))
                IN  preflop_actors = IF resolver = "parse_game" THEN Append(turn, turn[1])
                                     ELSE <<>>
    /\ position_map = EmptyMap /\ position = Absent
    /\ labels = EmptyMap /\ ring = EmptyMap
    /\ WalkIdle
    /\ HandIdle
    /\ BlindIdle
    /\ AggIdle
    /\ RatioIdle
    /\ DepthIdle
    /\ ClassifyIdle
    /\ CardsIdle
    /\ ListIdle
    /\ LoadIdle
    /\ CacheIdle
    /\ CurveIdle
    /\ ScenarioIdle
    /\ ShoveIdle
    /\ PayloadIdle
    /\ PerformanceIdle

hand == <<resolver, players, dealt_players, hero_name, round_zero, preflop_actors>>

ParseGame ==
    /\ resolver = "parse_game" /\ ~done
    /\ done' = TRUE
    /\ position_map' = parse_game_map(players, dealt_players, hero_name, round_zero, preflop_actors)
    /\ position' = map_get(position_map', hero_name, UNKNOWN)
    /\ UNCHANGED <<hand, labels, ring>>

PositionLabels ==
    /\ resolver = "position_labels" /\ ~done
    /\ done' = TRUE
    /\ labels' = position_labels(players)
    /\ UNCHANGED <<hand, position_map, position, ring>>

AssignPositionsFromPlayers ==
    /\ resolver = "assign_positions_from_players" /\ ~done
    /\ done' = TRUE
    /\ ring' = assign_positions_from_players(players, blind_name(round_zero, "1"))
    /\ UNCHANGED <<hand, position_map, position, labels>>

\* ------------------------------------------------- the walkers' machine
Loaders == {"matrix", "cbet", "turn", "river"}

WalkInit ==
    /\ loader \in Loaders
    /\ big_blind \in 0..1
    /\ pocket \in PocketSets
    /\ board \in BOOLEAN
    /\ loader = "matrix" => (pocket = {"H"} /\ board)
    /\ round = 0
    /\ paid = 0
    /\ betMade = FALSE
    /\ after = NoBetYet
    /\ acted = {}
    /\ aggr = None
    /\ folded = {}
    /\ fm = MatrixInit
    /\ cb = CbetInit
    /\ tu = TurnInit
    /\ rv = RiverInit
    /\ PosIdle
    /\ HandIdle
    /\ BlindIdle
    /\ AggIdle
    /\ RatioIdle
    /\ DepthIdle
    /\ ClassifyIdle
    /\ CardsIdle
    /\ ListIdle
    /\ LoadIdle
    /\ CacheIdle
    /\ CurveIdle
    /\ ScenarioIdle
    /\ ShoveIdle
    /\ PayloadIdle
    /\ PerformanceIdle

\* the events of the walker that reads the hand, and its running pot
Events ==
    IF loader = "matrix" THEN fm.events
    ELSE IF loader = "cbet" THEN cb.events
    ELSE IF loader = "turn" THEN tu.events
    ELSE rv.events

Pot ==
    IF loader = "matrix" THEN fm.total_pot
    ELSE IF loader = "cbet" THEN cb.total_pot
    ELSE IF loader = "turn" THEN tu.total_pot
    ELSE rv.total_pot

Named(a) == a.player # None
Aggressive(a) == a.type \in (BET_TYPES \cup RAISE_TYPES) /\ a.amount > 0

\* what the hand has held so far, once the record a is read
ReadRecord(a) ==
    /\ a.amount > 0 => (paid + a.amount <= MaxPot /\ Pot + a.amount <= MaxPot)
    /\ paid' = IF Named(a) /\ a.amount > 0 THEN paid + a.amount ELSE paid
    /\ betMade' = (betMade \/ (Named(a) /\ Aggressive(a)))
    /\ UNCHANGED <<loader, big_blind, pocket, board, round>>

\* the first record of each player since the BetEvent of this round
ReadAfter(a) ==
    after' = IF Len(Events') > Len(Events) THEN [p \in Players |-> None]
             ELSE IF Named(a) /\ after[a.player] = None
             THEN [after EXCEPT ![a.player] = a.type]
             ELSE after

\* the flop builder's hand: who acted this round, who raised last pre-flop,
\* who has folded before the flop
ReadFlopHand(a) ==
    /\ acted' = IF round = 2 /\ Named(a) THEN acted \cup {a.player} ELSE acted
    /\ aggr' = IF round = 1 /\ Named(a) /\ a.type \in RAISE_TYPES /\ a.amount > 0
               THEN a.player ELSE aggr
    /\ folded' = IF round <= 1 /\ Named(a)
                 THEN IF a.type \in FOLD_TYPES THEN folded \cup {a.player}
                      ELSE IF a.type \in CHECK_TYPES THEN folded
                      ELSE folded \ {a.player}
                 ELSE folded

OpenRound ==
    /\ round < 4
    /\ round' = round + 1
    /\ betMade' = FALSE
    /\ after' = NoBetYet
    /\ acted' = {}
    /\ UNCHANGED <<loader, big_blind, pocket, board, paid, aggr, folded>>

MatrixStep ==
    /\ loader = "matrix" /\ ~fm.stopped
    /\ \E a \in ActionsOfRound(round) :
          /\ fm' = matrix_action(fm, a)
          /\ ReadRecord(a) /\ ReadFlopHand(a)
    /\ UNCHANGED <<cb, tu, rv, after>>

MatrixRound ==
    /\ loader = "matrix" /\ ~fm.stopped
    /\ OpenRound
    /\ fm' = matrix_round(fm, round + 1)
    /\ UNCHANGED <<cb, tu, rv>>

CbetStep ==
    /\ loader = "cbet" /\ ~cb.skipped
    /\ \E a \in ActionsOfRound(round) :
          /\ cb' = cbet_action(cb, a)
          /\ ReadRecord(a) /\ ReadAfter(a)
    /\ UNCHANGED <<fm, tu, rv, acted, aggr, folded>>

CbetRound ==
    /\ loader = "cbet" /\ ~cb.skipped
    /\ OpenRound
    /\ cb' = cbet_round(cb, round + 1)
    /\ UNCHANGED <<fm, tu, rv>>

TurnStep ==
    /\ loader = "turn" /\ ~tu.skipped
    /\ \E a \in ActionsOfRound(round) :
          /\ tu' = turn_action(tu, a)
          /\ ReadRecord(a) /\ ReadAfter(a)
    /\ UNCHANGED <<fm, cb, rv, acted, aggr, folded>>

TurnRound ==
    /\ loader = "turn" /\ ~tu.skipped
    /\ OpenRound
    /\ tu' = turn_round(tu, round + 1)
    /\ UNCHANGED <<fm, cb, rv>>

RiverStep ==
    /\ loader = "river" /\ ~rv.skipped
    /\ \E a \in ActionsOfRound(round) :
          /\ rv' = river_action(rv, a)
          /\ ReadRecord(a) /\ ReadAfter(a)
    /\ UNCHANGED <<fm, cb, tu, acted, aggr, folded>>

RiverRound ==
    /\ loader = "river" /\ ~rv.skipped
    /\ OpenRound
    /\ rv' = river_round(rv, round + 1)
    /\ UNCHANGED <<fm, cb, tu>>

WalkNext ==
    \/ MatrixStep \/ MatrixRound
    \/ CbetStep \/ CbetRound
    \/ TurnStep \/ TurnRound
    \/ RiverStep \/ RiverRound

vars == <<wvars, pvars, hvars, bvars, avars, rvars, dvars, cvars, tvars, lvars, ovars, kvars, uvars, svars, xvars, yvars, zvars>>

SpecWalk == WalkInit /\ [][WalkNext /\ UNCHANGED <<pvars, hvars, bvars, avars, rvars, dvars, cvars, tvars, lvars, ovars, kvars, uvars, svars, xvars, yvars, zvars>>]_vars

\* ------------------------------------------------ the resolvers' machine
PosNext ==
    \/ ParseGame
    \/ PositionLabels
    \/ AssignPositionsFromPlayers

SpecPos == PosInit /\ [][PosNext /\ UNCHANGED <<wvars, hvars, bvars, avars, rvars, dvars, cvars, tvars, lvars, ovars, kvars, uvars, svars, xvars, yvars, zvars>>]_vars

\* ------------------------------------- the builder's and shadow's machine
\* A hand with a big blind of 1: the hero and two more players listed, at
\* most one of them not dealt in.
HandInit ==
    /\ loader = "matrix" /\ big_blind = 1 /\ pocket = {} /\ board = FALSE
    /\ round = 0 /\ paid = 0 /\ betMade = FALSE /\ after = NoBetYet
    /\ acted = {} /\ aggr = None /\ folded = {}
    /\ fm = MatrixInit /\ cb = CbetInit /\ tu = TurnInit /\ rv = RiverInit
    /\ PosIdle
    /\ BlindIdle
    /\ AggIdle
    /\ RatioIdle
    /\ DepthIdle
    /\ ClassifyIdle
    /\ CardsIdle
    /\ ListIdle
    /\ LoadIdle
    /\ CacheIdle
    /\ CurveIdle
    /\ ScenarioIdle
    /\ ShoveIdle
    /\ PayloadIdle
    /\ PerformanceIdle
    /\ hand_round = 0
    /\ sitting_out \in {{}, {"W"}}
    /\ quit = {} /\ in_at_flop = {}
    /\ hm = MatrixInit /\ hm_rest = <<>>
    /\ skm = MatrixInit /\ skm_rest = <<>>

\* the next record of the round: the builder reads it, the shadow reads it
\* when it names its player
HandStep ==
    /\ ~hm.stopped
    /\ \E a \in ActionsOfRound(hand_round) :
          /\ a.player \notin (sitting_out \cup quit)
          /\ a.amount > 0 => hm.total_pot + a.amount <= MaxPot
          /\ hm.events # <<>> => Len(hm_rest) < MaxRest
          /\ hm' = matrix_action(hm, a)
          /\ hm_rest' = IF hm.events # <<>> THEN Append(hm_rest, a) ELSE hm_rest
          /\ skm' = IF a.player = None THEN skm ELSE matrix_action(skm, a)
          /\ skm_rest' = IF skm.events # <<>> /\ a.player # None
                         THEN Append(skm_rest, a) ELSE skm_rest
          /\ quit' = IF a.player # None /\ a.type \in FOLD_TYPES
                     THEN quit \cup {a.player} ELSE quit
    /\ UNCHANGED <<hand_round, sitting_out, in_at_flop>>

\* the next round element, up to the flop's (the rounds after it go
\* through the final else branch, which appends no event)
HandRound ==
    /\ ~hm.stopped /\ hand_round < 2
    /\ hand_round' = hand_round + 1
    /\ hm' = matrix_round(hm, hand_round + 1)
    /\ skm' = matrix_round(skm, hand_round + 1)
    /\ in_at_flop' = IF hand_round + 1 = 2 THEN (Players \ sitting_out) \ quit
                     ELSE in_at_flop
    /\ UNCHANGED <<sitting_out, quit, hm_rest, skm_rest>>

HandNext == HandStep \/ HandRound

SpecHand == HandInit /\ [][HandNext /\ UNCHANGED <<wvars, pvars, bvars, avars, rvars, dvars, cvars, tvars, lvars, ovars, kvars, uvars, svars, xvars, yvars, zvars>>]_vars

\* ------------------------------------------ the big-blind test's machine
\* a hand with any of the texts at the four nodes, read by any walker
BlindInit ==
    /\ gametype_nodes \in GameTypeTexts \X GameTypeTexts
    /\ bigblind_nodes \in BigBlindTexts \X BigBlindTexts
    /\ dependent \in Loaders
    /\ extracted = NoFloat /\ hand_skipped = FALSE /\ blind_read = FALSE
    /\ WalkIdle /\ PosIdle /\ HandIdle /\ AggIdle /\ RatioIdle
    /\ DepthIdle
    /\ ClassifyIdle
    /\ CardsIdle
    /\ ListIdle
    /\ LoadIdle
    /\ CacheIdle
    /\ CurveIdle
    /\ ScenarioIdle
    /\ ShoveIdle
    /\ PayloadIdle
    /\ PerformanceIdle

\* _events_from_hand_history, lines 100-102
MatrixBlind ==
    /\ dependent = "matrix" /\ ~blind_read
    /\ extracted' = extract_big_blind(gametype_nodes, bigblind_nodes)
    /\ hand_skipped' = matrix_skips(extracted')
    /\ blind_read' = TRUE
    /\ UNCHANGED <<gametype_nodes, bigblind_nodes, dependent>>

\* load_cbet_events, load_turn_events, load_river_events
LoaderBlind ==
    /\ dependent # "matrix" /\ ~blind_read
    /\ extracted' = extract_big_blind(gametype_nodes, bigblind_nodes)
    /\ hand_skipped' = loader_skips(extracted')
    /\ blind_read' = TRUE
    /\ UNCHANGED <<gametype_nodes, bigblind_nodes, dependent>>

BlindNext == MatrixBlind \/ LoaderBlind

SpecBlind == BlindInit /\ [][BlindNext /\ UNCHANGED <<wvars, pvars, hvars, avars, rvars, dvars, cvars, tvars, lvars, ovars, kvars, uvars, svars, xvars, yvars, zvars>>]_vars

\* ------------------------------------------------ the aggregation's machine
AggInit ==
    /\ agg = AggregateInit /\ agg_read = 0 /\ agg_last = NoEvent
    /\ agg_result = <<>> /\ agg_done = FALSE
    /\ WalkIdle /\ PosIdle /\ HandIdle /\ BlindIdle /\ RatioIdle
    /\ DepthIdle
    /\ ClassifyIdle
    /\ CardsIdle
    /\ ListIdle
    /\ LoadIdle
    /\ CacheIdle
    /\ CurveIdle
    /\ ScenarioIdle
    /\ ShoveIdle
    /\ PayloadIdle
    /\ PerformanceIdle

\* the loop reads the next event of the list
AggregateEvent ==
    /\ ~agg_done /\ agg_read < MaxEvents
    /\ \E event \in AggEvents :
          /\ agg' = aggregate_event(agg, event)
          /\ agg_last' = event
    /\ agg_read' = agg_read + 1
    /\ UNCHANGED <<agg_result, agg_done>>

\* the list is read: the scenarios are built, sorted and returned
AggregateReturn ==
    /\ ~agg_done
    /\ agg_done' = TRUE
    /\ agg_result' = scenarios_of(agg.aggregate)
    /\ UNCHANGED <<agg, agg_read, agg_last>>

AggNext == AggregateEvent \/ AggregateReturn

SpecAgg == AggInit /\ [][AggNext /\ UNCHANGED <<wvars, pvars, hvars, bvars, rvars, dvars, cvars, tvars, lvars, ovars, kvars, uvars, svars, xvars, yvars, zvars>>]_vars

\* ------------------------------------------- the ratio bucketing's machine
RatioInit ==
    /\ ratio_given \in RatioArguments
    /\ bucket_found = 0 /\ ratio_bucketed = FALSE
    /\ WalkIdle /\ PosIdle /\ HandIdle /\ BlindIdle /\ AggIdle
    /\ DepthIdle
    /\ ClassifyIdle
    /\ CardsIdle
    /\ ListIdle
    /\ LoadIdle
    /\ CacheIdle
    /\ CurveIdle
    /\ ScenarioIdle
    /\ ShoveIdle
    /\ PayloadIdle
    /\ PerformanceIdle

BucketForRatio ==
    /\ ~ratio_bucketed
    /\ ratio_bucketed' = TRUE
    /\ bucket_found' = bucket_for_ratio(ratio_given)
    /\ UNCHANGED ratio_given

SpecRatio == RatioInit /\ [][BucketForRatio /\ UNCHANGED <<wvars, pvars, hvars, bvars, avars, dvars, cvars, tvars, lvars, ovars, kvars, uvars, svars, xvars, yvars, zvars>>]_vars

\* --------------------------------------- the stack and pot buckets' machine
DepthInit ==
    /\ \/ bucketer = "stack" /\ blinds_given \in BlindsArguments \cup {NearHundred}
       \/ bucketer = "pot" /\ blinds_given \in BlindsArguments \cup {NearTwelveAndAHalf}
    /\ blinds_bucket = 0 /\ blinds_bucketed = FALSE
    /\ WalkIdle /\ PosIdle /\ HandIdle /\ BlindIdle /\ AggIdle /\ RatioIdle
    /\ ClassifyIdle
    /\ CardsIdle
    /\ ListIdle
    /\ LoadIdle
    /\ CacheIdle
    /\ CurveIdle
    /\ ScenarioIdle
    /\ ShoveIdle
    /\ PayloadIdle
    /\ PerformanceIdle

StackBucketFor ==
    /\ ~blinds_bucketed /\ bucketer = "stack"
    /\ blinds_bucketed' = TRUE
    /\ blinds_bucket' = stack_bucket_for(blinds_given)
    /\ UNCHANGED <<bucketer, blinds_given>>

PotBucketFor ==
    /\ ~blinds_bucketed /\ bucketer = "pot"
    /\ blinds_bucketed' = TRUE
    /\ blinds_bucket' = pot_bucket_for(blinds_given)
    /\ UNCHANGED <<bucketer, blinds_given>>

DepthNext == StackBucketFor \/ PotBucketFor

SpecDepth == DepthInit /\ [][DepthNext /\ UNCHANGED <<wvars, pvars, hvars, bvars, avars, rvars, cvars, tvars, lvars, ovars, kvars, uvars, svars, xvars, yvars, zvars>>]_vars

\* ------------------------------------------ the classification's machine
\* two hole cards and a board of three to five other cards of the deck
ClassifyInit ==
    /\ hole_cards \in { h \in SUBSET Deck : Cardinality(h) = 2 }
    /\ board_cards \in { b \in SUBSET (Deck \ hole_cards) :
                            Cardinality(b) \in 3..5 }
    /\ classification = NoClassification /\ classified = FALSE
    /\ WalkIdle /\ PosIdle /\ HandIdle /\ BlindIdle /\ AggIdle /\ RatioIdle /\ DepthIdle
    /\ CardsIdle
    /\ ListIdle
    /\ LoadIdle
    /\ CacheIdle
    /\ CurveIdle
    /\ ScenarioIdle
    /\ ShoveIdle
    /\ PayloadIdle
    /\ PerformanceIdle

ClassifyHand ==
    /\ ~classified
    /\ classified' = TRUE
    /\ classification' = classify_hand(hole_cards, board_cards)
    /\ UNCHANGED <<hole_cards, board_cards>>

SpecClassify == ClassifyInit /\ [][ClassifyHand /\ UNCHANGED <<wvars, pvars, hvars, bvars, avars, rvars, dvars, tvars, lvars, ovars, kvars, uvars, svars, xvars, yvars, zvars>>]_vars

\* ------------------------------------------------ the card texts' machine
CardsInit ==
    /\ card_text \in CardTexts
    /\ card_parser \in CardParsers
    /\ cards_parsed = <<>> /\ textures_found = <<>> /\ cards_read = FALSE
    /\ WalkIdle /\ PosIdle /\ HandIdle /\ BlindIdle /\ AggIdle /\ RatioIdle /\ DepthIdle
    /\ ClassifyIdle
    /\ ListIdle
    /\ LoadIdle
    /\ CacheIdle
    /\ CurveIdle
    /\ ScenarioIdle
    /\ ShoveIdle
    /\ PayloadIdle
    /\ PerformanceIdle

ParseCardsText ==
    /\ ~cards_read /\ card_parser = "parse_cards_text"
    /\ cards_read' = TRUE
    /\ cards_parsed' = parse_cards_text(card_text)
    /\ UNCHANGED <<card_text, card_parser, textures_found>>

ParseCards ==
    /\ ~cards_read /\ card_parser = "_parse_cards"
    /\ cards_read' = TRUE
    /\ cards_parsed' = parse_cards(card_text)
    /\ UNCHANGED <<card_text, card_parser, textures_found>>

DetectTextures ==
    /\ ~cards_read /\ card_parser = "detect_textures"
    /\ cards_read' = TRUE
    /\ cards_parsed' = LET cards == parse_flop(card_text)
                       IN  [ i \in 1..Len(cards) |-> <<cards[i].suit, rank_value(cards[i])>> ]
    /\ textures_found' = detect_textures(card_text)
    /\ UNCHANGED <<card_text, card_parser>>

CardsNext == ParseCardsText \/ ParseCards \/ DetectTextures

SpecCards == CardsInit /\ [][CardsNext /\ UNCHANGED <<wvars, pvars, hvars, bvars, avars, rvars, dvars, cvars, lvars, ovars, kvars, uvars, svars, xvars, yvars, zvars>>]_vars

\* ------------------------------------------- the reordered list's machine
ListInit ==
    /\ \E n \in 1..MaxListed :
          /\ listed \in [1..n -> ListedEvents]
          /\ reorder \in Reorderings(n)
    /\ of_listed = NotAggregated
    /\ of_reordered = NotAggregated
    /\ WalkIdle /\ PosIdle /\ HandIdle /\ BlindIdle /\ AggIdle /\ RatioIdle /\ DepthIdle
    /\ ClassifyIdle /\ CardsIdle
    /\ LoadIdle
    /\ CacheIdle
    /\ CurveIdle
    /\ ScenarioIdle
    /\ ShoveIdle
    /\ PayloadIdle
    /\ PerformanceIdle

AggregateListed ==
    /\ ~of_listed.returned
    /\ of_listed' = [ returned |-> TRUE, result |-> aggregate_events(listed) ]
    /\ UNCHANGED <<listed, reorder, of_reordered>>

AggregateReordered ==
    /\ ~of_reordered.returned
    /\ of_reordered' = [ returned |-> TRUE, result |-> aggregate_events(reordered) ]
    /\ UNCHANGED <<listed, reorder, of_listed>>

ListNext == AggregateListed \/ AggregateReordered

SpecList == ListInit /\ [][ListNext /\ UNCHANGED <<wvars, pvars, hvars, bvars, avars, rvars, dvars, cvars, tvars, ovars, kvars, uvars, svars, xvars, yvars, zvars>>]_vars

\* ------------------------------------------------ the loaders' machine
LoadInit ==
    /\ \/ /\ loading = "collect_flop_bet_events"
          /\ max_hands \in {NoLimit} \cup 0..MaxLimit
          /\ rows \in UNION { [1..n -> RowKinds] : n \in 0..MaxRows }
       \/ /\ loading \in RowLoaders \ {"collect_flop_bet_events"}
          /\ max_hands = NoLimit
          /\ rows \in UNION { [1..n -> RowKinds] : n \in 0..MaxRows }
       \/ /\ loading = "build_response_curves"
          /\ max_hands \in {NoLimit} \cup 0..MaxLimit
          /\ rows \in UNION { [1..n -> HandKinds] : n \in 0..MaxRows }
    /\ cursor = 0 /\ loaded = <<>> /\ walked = 0 /\ raised = None /\ returned = FALSE
    /\ WalkIdle /\ PosIdle /\ HandIdle /\ BlindIdle /\ AggIdle /\ RatioIdle /\ DepthIdle
    /\ ClassifyIdle /\ CardsIdle /\ ListIdle
    /\ CacheIdle
    /\ CurveIdle
    /\ ScenarioIdle
    /\ ShoveIdle
    /\ PayloadIdle
    /\ PerformanceIdle

Loading(name) ==
    /\ loading = name /\ ~returned /\ raised = None /\ cursor < Len(rows)

\* collect_flop_bet_events, one turn of the loop: lines 47-58
CollectRow ==
    /\ Loading("collect_flop_bet_events")
    /\ cursor' = cursor + 1
    /\ LET kind == rows[cursor + 1]
           events == loaded \o events_of_row(kind, cursor + 1)
       IN  IF kind \in {"null", "blank"}
           THEN UNCHANGED <<loaded, walked, returned>>
           ELSE IF fromstring_raises(kind) = "ParseError"
           THEN UNCHANGED <<loaded, walked, returned>>
           ELSE /\ walked' = walked + 1
                /\ IF max_hands # NoLimit /\ Len(events) >= max_hands
                   THEN loaded' = truncated(events, max_hands) /\ returned' = TRUE
                   ELSE loaded' = events /\ UNCHANGED returned
    /\ UNCHANGED <<rows, loading, max_hands, raised>>

\* load_cbet_events, one turn of the loop: ET.fromstring is not guarded
CbetRow ==
    /\ Loading("load_cbet_events")
    /\ cursor' = cursor + 1
    /\ LET kind == rows[cursor + 1]
       IN  IF fromstring_raises(kind) # None
           THEN raised' = fromstring_raises(kind) /\ UNCHANGED <<loaded, walked>>
           ELSE /\ loaded' = loaded \o events_of_row(kind, cursor + 1)
                /\ walked' = walked + 1
                /\ UNCHANGED raised
    /\ UNCHANGED <<rows, loading, max_hands, returned>>

\* load_turn_events, one turn of the loop: ParseError is caught
TurnRow ==
    /\ Loading("load_turn_events")
    /\ cursor' = cursor + 1
    /\ LET kind == rows[cursor + 1]
       IN  IF fromstring_raises(kind) = "ParseError"
           THEN UNCHANGED <<loaded, walked, raised>>
           ELSE IF fromstring_raises(kind) # None
           THEN raised' = fromstring_raises(kind) /\ UNCHANGED <<loaded, walked>>
           ELSE /\ loaded' = loaded \o events_of_row(kind, cursor + 1)
                /\ walked' = walked + 1
                /\ UNCHANGED raised
    /\ UNCHANGED <<rows, loading, max_hands, returned>>

\* load_river_events, one turn of the loop: ParseError is caught
RiverRow ==
    /\ Loading("load_river_events")
    /\ cursor' = cursor + 1
    /\ LET kind == rows[cursor + 1]
       IN  IF fromstring_raises(kind) = "ParseError"
           THEN UNCHANGED <<loaded, walked, raised>>
           ELSE IF fromstring_raises(kind) # None
           THEN raised' = fromstring_raises(kind) /\ UNCHANGED <<loaded, walked>>
           ELSE /\ loaded' = loaded \o events_of_row(kind, cursor + 1)
                /\ walked' = walked + 1
                /\ UNCHANGED raised
    /\ UNCHANGED <<rows, loading, max_hands, returned>>

\* build_response_curves, one turn of the loop over actions_map: lines 785-793
CurvesHand ==
    /\ Loading("build_response_curves")
    /\ IF max_hands # NoLimit /\ walked >= max_hands
       THEN returned' = TRUE /\ UNCHANGED <<cursor, loaded, walked>>
       ELSE /\ cursor' = cursor + 1
            /\ UNCHANGED returned
            /\ LET kind == rows[cursor + 1]
               IN  IF kind = "unseated"
                   THEN UNCHANGED <<loaded, walked>>
                   ELSE /\ loaded' = loaded \o events_of_row(kind, cursor + 1)
                        /\ walked' = walked + 1
    /\ UNCHANGED <<rows, loading, max_hands, raised>>

\* the rows are exhausted: the function returns what it has
RowsExhausted ==
    /\ loading # None /\ ~returned /\ raised = None /\ cursor = Len(rows)
    /\ returned' = TRUE
    /\ UNCHANGED <<rows, loading, max_hands, cursor, loaded, walked, raised>>

LoadNext == CollectRow \/ CbetRow \/ TurnRow \/ RiverRow \/ CurvesHand \/ RowsExhausted

SpecLoad == LoadInit /\ [][LoadNext /\ UNCHANGED <<wvars, pvars, hvars, bvars, avars, rvars, dvars, cvars, tvars, lvars, kvars, uvars, svars, xvars, yvars, zvars>>]_vars

\* ------------------------------------------------ the caches' machine
\* A cache file holds what an earlier load derived, from the source as it is
\* or as it was with fewer hands; only load_cbet_events can be called with
\* no cache_path, and only its file can be in the old format.
CacheInit ==
    /\ cache_loader \in CacheLoaders
    /\ source_hands \in 0..MaxHands
    /\ source_available \in BOOLEAN
    /\ path_given \in BOOLEAN
    /\ cache_loader # "load_cbet_events" => path_given
    /\ cache_loader # "load_preflop_shove_events" => source_available
    /\ cache_file \in {NoFile} \cup { <<"list", n>> : n \in 0..source_hands }
                       \cup { <<"old", n>> : n \in 1..source_hands }
    /\ ~path_given => cache_file = NoFile
    /\ cache_loader # "load_cbet_events" => cache_file[1] # "old"
    /\ force = FALSE
    /\ result = NotLoaded
    /\ WalkIdle /\ PosIdle /\ HandIdle /\ BlindIdle /\ AggIdle /\ RatioIdle /\ DepthIdle
    /\ ClassifyIdle /\ CardsIdle /\ ListIdle /\ LoadIdle
    /\ CurveIdle
    /\ ScenarioIdle
    /\ ShoveIdle
    /\ PayloadIdle
    /\ PerformanceIdle

LoadCbetEvents ==
    /\ cache_loader = "load_cbet_events"
    /\ \E forced \in BOOLEAN :
          LET out == load_cbet_events(cache_file, path_given, forced, source_hands)
          IN  force' = forced /\ result' = out.returned /\ cache_file' = out.file
    /\ UNCHANGED <<cache_loader, path_given, source_hands, source_available>>

LoadResponseCurveScenarios ==
    /\ cache_loader = "load_response_curve_scenarios"
    /\ \E forced \in BOOLEAN :
          LET out == load_response_curve_scenarios(cache_file, forced)
          IN  force' = forced /\ result' = out.returned /\ cache_file' = out.file
    /\ UNCHANGED <<cache_loader, path_given, source_hands, source_available>>

LoadPreflopShoveEvents ==
    /\ cache_loader = "load_preflop_shove_events"
    /\ \E forced \in BOOLEAN :
          LET out == load_preflop_shove_events(cache_file, forced, source_available, source_hands)
          IN  force' = forced /\ result' = out.returned /\ cache_file' = out.file
    /\ UNCHANGED <<cache_loader, path_given, source_hands, source_available>>

CacheNext == LoadCbetEvents \/ LoadResponseCurveScenarios \/ LoadPreflopShoveEvents

SpecCache == CacheInit /\ [][CacheNext /\ UNCHANGED <<wvars, pvars, hvars, bvars, avars, rvars, dvars, cvars, tvars, lvars, ovars, uvars, svars, xvars, yvars, zvars>>]_vars

\* ------------------------------------------------ process_hand's machine
CurveInit ==
    /\ hand_actions \in UNION { [1..n -> CurveActions] : n \in 1..MaxActions }
    /\ action_idx = 0 /\ pot_c = 0 /\ player_contrib = NoContrib
    /\ raise_count = 0 /\ calls_since_raise = 0 /\ calls_total = 0
    /\ vpipped_players = {} /\ folded_seats = {} /\ hero_events = <<>>
    /\ scenarios = <<>> /\ processed = FALSE
    /\ WalkIdle /\ PosIdle /\ HandIdle /\ BlindIdle /\ AggIdle /\ RatioIdle /\ DepthIdle
    /\ ClassifyIdle /\ CardsIdle /\ ListIdle /\ LoadIdle /\ CacheIdle
    /\ ScenarioIdle
    /\ ShoveIdle
    /\ PayloadIdle
    /\ PerformanceIdle

\* the seat pays inc into the pot
Pays(seat, inc) ==
    /\ pot_c' = pot_c + inc
    /\ player_contrib' = [player_contrib EXCEPT ![seat] = @ + inc]

\* a raise that is counted and not recorded
RaiseNotRecorded(seat, inc) ==
    /\ Pays(seat, inc)
    /\ raise_count' = raise_count + 1
    /\ calls_since_raise' = 0
    /\ UNCHANGED <<calls_total, vpipped_players, folded_seats, hero_events>>

\* the stack of the raiser or the largest other stack, whichever is less
effective_stack(seat) ==
    LET hero_stack_c == SeatRows[seat].stack_start_c
        others == { SeatRows[s].stack_start_c : s \in (DOMAIN SeatRows) \ {seat} }
        largest == IF others = {} THEN 0 ELSE CHOOSE x \in others : \A y \in others : x >= y
        villain_max_stack_c == IF largest <= 0 THEN hero_stack_c ELSE largest
    IN  IF hero_stack_c <= villain_max_stack_c THEN hero_stack_c ELSE villain_max_stack_c

\* one turn of the loop of process_hand over the actions
ProcessAction ==
    /\ ~processed /\ action_idx < Len(hand_actions)
    /\ action_idx' = action_idx + 1
    /\ LET idx == action_idx + 1
           a == hand_actions[idx]
           seat == a.seat_no
           inc == a.inc_c
       IN  IF seat = 0
           THEN UNCHANGED <<pot_c, player_contrib, raise_count, calls_since_raise,
                            calls_total, vpipped_players, folded_seats, hero_events>>
           ELSE IF a.action \in POST_ACTIONS
           THEN /\ Pays(seat, inc)
                /\ UNCHANGED <<raise_count, calls_since_raise, calls_total,
                               vpipped_players, folded_seats, hero_events>>
           ELSE IF a.action \in IGNORE_ACTIONS
           THEN UNCHANGED <<pot_c, player_contrib, raise_count, calls_since_raise,
                            calls_total, vpipped_players, folded_seats, hero_events>>
           ELSE IF a.action \in CALL_ACTIONS
           THEN /\ Pays(seat, inc)
                /\ calls_since_raise' = calls_since_raise + 1
                /\ calls_total' = calls_total + 1
                /\ vpipped_players' = vpipped_players \cup {seat}
                /\ UNCHANGED <<raise_count, folded_seats, hero_events>>
           ELSE IF a.action = "fold"
           THEN /\ folded_seats' = folded_seats \cup {seat}
                /\ UNCHANGED <<pot_c, player_contrib, raise_count, calls_since_raise,
                               calls_total, vpipped_players, hero_events>>
           ELSE IF a.action \in RAISE_ACTIONS
           THEN IF seat \notin DOMAIN SeatRows THEN RaiseNotRecorded(seat, inc)
                ELSE IF inc <= 0 \/ pot_c <= 0 THEN RaiseNotRecorded(seat, inc)
                ELSE IF stack_bucket_for(<<effective_stack(seat), 1>>) = 0
                THEN RaiseNotRecorded(seat, inc)
                ELSE IF bucket_for_ratio(<<inc, pot_c>>) = 0
                THEN RaiseNotRecorded(seat, inc)
                ELSE /\ hero_events' = Append(hero_events,
                          [at |-> idx,
                           position |-> SeatRows[seat].position,
                           stack_bucket |-> stack_bucket_for(<<effective_stack(seat), 1>>),
                           pot_bucket |-> pot_bucket_for(<<pot_c, 1>>),
                           situation_key |->
                               situation_key(raise_count, calls_since_raise, calls_total),
                           bet_bucket |-> bucket_for_ratio(<<inc, pot_c>>),
                           response |-> classify_response(hand_actions, idx, seat),
                           pot_before |-> pot_c,
                           invest |-> inc,
                           players_behind |-> count_players_to_act(hand_actions, idx, seat),
                           vpip_ahead |-> Cardinality(vpipped_players \ {seat})])
                     /\ Pays(seat, inc)
                     /\ raise_count' = raise_count + 1
                     /\ calls_since_raise' = 0
                     /\ calls_total' = 0
                     /\ vpipped_players' = vpipped_players \cup {seat}
                     /\ UNCHANGED folded_seats
           ELSE UNCHANGED <<pot_c, player_contrib, raise_count, calls_since_raise,
                            calls_total, vpipped_players, folded_seats, hero_events>>
    /\ UNCHANGED <<hand_actions, scenarios, processed>>

\* the end of process_hand: the events of the hand are registered
RegisterHand ==
    /\ ~processed /\ action_idx = Len(hand_actions)
    /\ processed' = TRUE
    /\ LET remaining_players ==
               { s \in CurveSeats : player_contrib[s] > 0 /\ s \notin folded_seats }
       IN  scenarios' = register_events(scenarios, hero_events, pot_c,
                                        Cardinality(remaining_players))
    /\ UNCHANGED <<hand_actions, action_idx, pot_c, player_contrib, raise_count,
                   calls_since_raise, calls_total, vpipped_players, folded_seats, hero_events>>

CurveNext == ProcessAction \/ RegisterHand

SpecCurve == CurveInit /\ [][CurveNext /\ UNCHANGED <<wvars, pvars, hvars, bvars, avars, rvars, dvars, cvars, tvars, lvars, ovars, kvars, svars, xvars, yvars, zvars>>]_vars

\* ------------------------------------------- the cached scenario's machine
ScenarioInit ==
    /\ scenario_data \in [texts : dicts_of(ScenarioTexts), numbers : dicts_of(ScenarioNumbers)]
    /\ scenario = NoScenario
    /\ scenario_read = FALSE
    /\ WalkIdle /\ PosIdle /\ HandIdle /\ BlindIdle /\ AggIdle /\ RatioIdle /\ DepthIdle
    /\ ClassifyIdle /\ CardsIdle /\ ListIdle /\ LoadIdle /\ CacheIdle /\ CurveIdle
    /\ ShoveIdle
    /\ PayloadIdle
    /\ PerformanceIdle

ScenarioFromDict ==
    /\ ~scenario_read
    /\ scenario' = scenario_from_dict(scenario_data)
    /\ scenario_read' = TRUE
    /\ UNCHANGED scenario_data

SpecScenario == ScenarioInit /\ [][ScenarioFromDict /\ UNCHANGED <<wvars, pvars, hvars, bvars, avars, rvars, dvars, cvars, tvars, lvars, ovars, kvars, uvars, xvars, yvars, zvars>>]_vars

\* ------------------------------------------------ the shove ranges' machine
ShoveInit ==
    /\ shove_events \in UNION { [1..n -> ShoveEvents] : n \in 1..MaxShoves }
    /\ shove_payload = <<>>
    /\ shove_done = FALSE
    /\ WalkIdle /\ PosIdle /\ HandIdle /\ BlindIdle /\ AggIdle /\ RatioIdle /\ DepthIdle
    /\ ClassifyIdle /\ CardsIdle /\ ListIdle /\ LoadIdle /\ CacheIdle /\ CurveIdle
    /\ ScenarioIdle
    /\ PayloadIdle
    /\ PerformanceIdle

GetShoveRangePayload ==
    /\ ~shove_done
    /\ shove_payload' = get_shove_range_payload(shove_events)
    /\ shove_done' = TRUE
    /\ UNCHANGED shove_events

SpecShove == ShoveInit /\ [][GetShoveRangePayload /\ UNCHANGED <<wvars, pvars, hvars, bvars, avars, rvars, dvars, cvars, tvars, lvars, ovars, kvars, uvars, svars, yvars, zvars>>]_vars

\* ------------------------------ the two aggregators' machines, side by side
\* either the flop matrix aggregator runs over its events or the response
\* curve builder over its hand
CountersInit == AggInit \/ CurveInit

CountersNext ==
    \/ AggNext /\ UNCHANGED uvars
    \/ CurveNext /\ UNCHANGED avars

SpecCounters == CountersInit /\ [][CountersNext /\ UNCHANGED <<wvars, pvars, hvars, bvars, rvars, dvars, cvars, tvars, lvars, ovars, kvars, svars, xvars, yvars, zvars>>]_vars

\* --------------------------------------------------- the payload's machine
PayloadInit ==
    /\ pay = AggregateInit /\ pay_before = AggregateInit /\ pay_last = NoPayloadEvent
    /\ pay_read = 0 /\ pay_raised = None /\ pay_result = NoPayload /\ pay_done = FALSE
    /\ WalkIdle /\ PosIdle /\ HandIdle /\ BlindIdle /\ AggIdle /\ RatioIdle /\ DepthIdle
    /\ ClassifyIdle /\ CardsIdle /\ ListIdle /\ LoadIdle /\ CacheIdle /\ CurveIdle
    /\ ScenarioIdle /\ ShoveIdle
    /\ PerformanceIdle

\* the loop reads the next event, and an exception leaves the function
BuildPayloadEvent ==
    /\ ~pay_done /\ pay_raised = None /\ pay_read < MaxEvents
    /\ \E raw \in PayloadEvents :
          LET turn == payload_event(pay, raw)
          IN  /\ pay' = turn.st
              /\ pay_raised' = turn.raised
              /\ pay_last' = raw
    /\ pay_before' = pay
    /\ pay_read' = pay_read + 1
    /\ UNCHANGED <<pay_result, pay_done>>

\* the events are read: the payload is built and returned
BuildPayloadReturn ==
    /\ ~pay_done /\ pay_raised = None
    /\ pay_done' = TRUE
    /\ pay_result' = payload_of(pay)
    /\ UNCHANGED <<pay, pay_before, pay_last, pay_read, pay_raised>>

PayloadNext == BuildPayloadEvent \/ BuildPayloadReturn

SpecPayload == PayloadInit /\ [][PayloadNext /\ UNCHANGED <<wvars, pvars, hvars, bvars, avars, rvars, dvars, cvars, tvars, lvars, ovars, kvars, uvars, svars, xvars, zvars>>]_vars

\* ----------------------------------------------- the accumulators' machine
PerformanceInit ==
    /\ overall = <<>> /\ by_position = <<>> /\ games_read = 0 /\ last_flags = NoFlags
    /\ WalkIdle /\ PosIdle /\ HandIdle /\ BlindIdle /\ AggIdle /\ RatioIdle /\ DepthIdle
    /\ ClassifyIdle /\ CardsIdle /\ ListIdle /\ LoadIdle /\ CacheIdle /\ CurveIdle
    /\ ScenarioIdle /\ ShoveIdle /\ PayloadIdle

\* a game that _parse_game gives no result for
SkipGame ==
    /\ games_read < MaxGames
    /\ games_read' = games_read + 1
    /\ UNCHANGED <<overall, by_position, last_flags>>

\* a game that is parsed: it is recorded in the accumulator of its number
\* of opponents and in that of the hero's position
RecordGame ==
    /\ games_read < MaxGames
    /\ games_read' = games_read + 1
    /\ \E opponents \in {1, 2}, hero_position \in {"BTN", "BB"},
          net_bb \in {0 - 1, 1}, pot_bb \in {0, 2}, preflop_actions \in PreflopActions :
          LET flags == evaluate_preflop(preflop_actions, Hero)
              spot == <<opponents, hero_position>>
          IN  /\ overall' = (opponents :> record(get_or(overall, opponents, Accumulator),
                                                 100 * net_bb, net_bb, flags, pot_bb))
                                @@ overall
              /\ by_position' = (spot :> record(get_or(by_position, spot, Accumulator),
                                                100 * net_bb, net_bb, flags, pot_bb))
                                    @@ by_position
              /\ last_flags' = flags

PerformanceNext == SkipGame \/ RecordGame

SpecPerformance == PerformanceInit /\ [][PerformanceNext /\ UNCHANGED <<wvars, pvars, hvars, bvars, avars, rvars, dvars, cvars, tvars, lvars, ovars, kvars, uvars, svars, xvars, yvars>>]_vars

\* ------------------------------------------------------ the bet-event rule
\* the street whose bets the walker records
Street ==
    IF loader \in {"matrix", "cbet"} THEN 2 ELSE IF loader = "turn" THEN 3 ELSE 4

Emitted == Len(Events') = Len(Events) + 1
NewEvent == Events'[Len(Events')]

\* the amount of the bet an event records, as far as the record shows it
PositiveBet(e) ==
    IF loader = "matrix" THEN e.ratio[1] > 0
    ELSE IF loader = "cbet" THEN e.ratio > 0
    ELSE e.bet_amount > 0

\* C1 as stated: a BetEvent is emitted only for the first positive-amount
\* bet/raise/all-in of its street - once any player has bet or raised a
\* positive amount on the street no later action emits one - so a hand has at
\* most one BetEvent per street.
C1_FirstBetOfStreetOnly ==
    [][ /\ Len(Events') <= 1
        /\ Emitted => (~betMade /\ betMade') ]_vars

\* C1 amended: a hand has at most one BetEvent per street; it is emitted on
\* the walker's street for a positive-amount bet/raise/all-in of a player
\* whose action the walker records (the hero, or a player whose hole cards
\* are known), and only in the flop matrix builder is it never emitted once
\* a player has bet or raised a positive amount on the street.
C1_OneBetEventPerStreet ==
    [][ /\ Len(Events') <= 1
        /\ Emitted => /\ round = Street
                      /\ betMade'
                      /\ PositiveBet(NewEvent)
                      /\ loader = "matrix" => ~betMade
                      /\ loader # "matrix" => NewEvent.player \in pocket ]_vars

\* a BetEvent of the turn loader, and an opponent who raised after it
C1_Witness ==
    /\ loader = "turn" /\ round = 3 /\ Len(tu.events) = 1
    /\ \E p \in Players : after[p] \in RAISE_TYPES

\* C2 as stated: for every emitted BetEvent pot-before is the sum of the
\* positive amounts of all earlier named-actor actions of the hand, and
\* ratio = bet amount / pot-before.
C2_PotBeforeIsAllPaid ==
    [][ Emitted =>
          IF loader = "matrix" THEN NewEvent.ratio[2] = paid
          ELSE IF loader = "cbet"
          THEN paid > 0 /\ \E amt \in 1..MaxAmount : NewEvent.ratio = Round6(amt, paid)
          ELSE /\ NewEvent.pot_before = paid
               /\ paid > 0 => NewEvent.ratio = Round6(NewEvent.bet_amount, paid) ]_vars

\* the responses an event holds of a player
ResponsesOf(e, p) == SelectSeq(e.responses, LAMBDA r : r.player = p)

\* the response kinds an action type may be recorded as
KindOfType(t) ==
    IF t = "0" THEN {"Fold"}
    ELSE IF t = "3" THEN {"Call"}
    ELSE IF t \in {"5", "7", "23"} THEN {"Raise"}
    ELSE {"Fold", "Call", "Raise"}

\* every event: no response of the bettor, at most one of an opponent, and
\* on the street of the bet exactly the opponent's first action since
FirstActionRecorded ==
    \A i \in 1..Len(Events) :
        LET e == Events[i] IN
        /\ ResponsesOf(e, e.player) = <<>>
        /\ \A p \in Players \ {e.player} :
              /\ Len(ResponsesOf(e, p)) <= 1
              /\ after # NoBetYet =>
                    IF after[p] = None THEN ResponsesOf(e, p) = <<>>
                    ELSE /\ Len(ResponsesOf(e, p)) = 1
                         /\ ResponsesOf(e, p)[1].action_type = after[p]
                         /\ ResponsesOf(e, p)[1].response \in KindOfType(after[p])

\* C3: a BetEvent holds at most one response per opponent, none of the
\* bettor, and an opponent's response is that opponent's first action on the
\* street after the bet (fold -> Fold, call -> Call, bet/raise/all-in ->
\* Raise); later actions add nothing, and once the street is over the event
\* no longer changes.
C3_FirstResponseOnly ==
    [][ loader # "matrix" =>
          /\ FirstActionRecorded'
          /\ round # Street => Events' = Events ]_vars

\* both opponents have answered the bet and the pot holds more than the
\* bet and their answers: somebody acted again after answering
C3_Witness ==
    /\ loader = "turn" /\ round = 3 /\ Len(tu.events) = 1
    /\ Len(tu.events[1].responses) = 2
    /\ tu.total_pot > tu.events[1].pot_before + tu.events[1].bet_amount
                      + tu.events[1].responses[1].amount
                      + tu.events[1].responses[2].amount

\* the class by the aggressor and the flop actors alone
BetTypeAsStated ==
    IF aggr = Hero THEN "cbet"
    ELSE IF aggr # None /\ aggr \notin acted THEN "donk"
    ELSE "stab"

\* C4 as stated: a flop BetEvent is 'cbet' when the bettor was the pre-flop
\* aggressor, 'donk' when another player was and has not yet acted on the
\* flop, else 'stab'.
C4_BetTypeAsStated ==
    [][ (loader = "matrix" /\ Emitted) => NewEvent.bet_type = BetTypeAsStated ]_vars

\* the class when a donk bet also needs the aggressor still in the hand
BetTypeAmended ==
    IF aggr = Hero THEN "cbet"
    ELSE IF aggr # None /\ aggr \notin folded /\ aggr \notin acted THEN "donk"
    ELSE "stab"

\* C4 amended: 'cbet' when the bettor was the pre-flop aggressor, 'donk'
\* when another player was, has not folded before the flop and has not yet
\* acted on the flop, else 'stab'.
C4_BetTypeAmended ==
    [][ (loader = "matrix" /\ Emitted) => NewEvent.bet_type = BetTypeAmended ]_vars

\* the hero bets the flop before an aggressor who is still in the hand
C4_Witness ==
    /\ loader = "matrix" /\ Len(fm.events) = 1
    /\ fm.events[1].bet_type = "donk"
    /\ aggr \in Players \ {Hero}

\* C5: no BetEvent is emitted while the pot before the bet is zero.
C5_NoEventOnEmptyPot ==
    [][ Emitted => Pot > 0 ]_vars

\* ------------------------------------------------- the position rules
N == Cardinality(dealt_players)
Dealer == dealer_name_of(players)
SmallBlind == blind_name(round_zero, "1")
BigBlind == blind_name(round_zero, "2")
Parsed == resolver = "parse_game" /\ done

\* the map the resolver that ran has returned, and the hero's position by it
Assigned ==
    IF resolver = "parse_game" THEN position_map
    ELSE IF resolver = "position_labels" THEN labels
    ELSE ring

HeroPosition ==
    IF resolver = "parse_game" THEN position
    ELSE map_get(Assigned, hero_name, UNKNOWN)

\* the blinds are posted normally: the small blind by the player next
\* after the dealer (by the dealer heads-up), the big blind by the next
NormalBlinds ==
    /\ Dealer \in dealt_players
    /\ SmallBlind = (IF N = 2 THEN Dealer ELSE next_dealt(Dealer, dealt_players))
    /\ BigBlind = next_dealt(SmallBlind, dealt_players)

\* C6: for N = 2..9 players dealt in, one of them with the dealer marker and
\* the blinds posted normally, the resolver gives the dealt players N
\* pairwise distinct positions, together the canonical N-position list (the
\* small blind's poster SB, the big blind's BB), and none is UNKNOWN.
C6_HappyPath ==
    (Parsed /\ N \in 2..9 /\ NormalBlinds) =>
        /\ \A p \in dealt_players : position_map[p] \notin {Absent, UNKNOWN}
        /\ \A p, q \in dealt_players : p # q => position_map[p] # position_map[q]
        /\ {position_map[p] : p \in dealt_players} = Range(POSITIONS_BY_COUNT(N))
        /\ position_map[SmallBlind] = "SB" /\ position_map[BigBlind] = "BB"
        /\ position = position_map[hero_name]

\* nine players dealt in, the hero three seats after the big blind
C6_Witness ==
    Parsed /\ N = 9 /\ NormalBlinds /\ position = "UTG+2"

\* C7: dealer dealt in, big blind posted, no small blind posted (two to
\* nine players dealt in): the dealer has the button's position (BTN; SB
\* heads-up, where the list has no BTN) and every dealt player has a
\* position, not UNKNOWN.
C7_DeadSmallBlind ==
    (Parsed /\ N \in 2..9 /\ Dealer \in dealt_players
            /\ BigBlind # NoName /\ SmallBlind = NoName) =>
        /\ position_map[Dealer] = (IF N = 2 THEN "SB" ELSE "BTN")
        /\ \A p \in dealt_players : position_map[p] \notin {Absent, UNKNOWN}
        /\ position # UNKNOWN

\* C7 from three players on: with three to nine players dealt in it is so,
\* and the k-th dealt player clockwise after the dealer has the k-th
\* position of the canonical list, the dealer the last one, BTN.
C7_DeadSmallBlindFromThree ==
    (Parsed /\ N \in 3..9 /\ Dealer \in dealt_players
            /\ BigBlind # NoName /\ SmallBlind = NoName) =>
        /\ position_map[Dealer] = "BTN"
        /\ \A k \in 1..N :
              position_map[clockwise_from(Dealer, dealt_players, N)[k]]
                  = POSITIONS_BY_COUNT(N)[k]
        /\ position \notin {Absent, UNKNOWN}

\* six dealt in, the dealer at seat 4, the big blind posted from seat 5,
\* no small blind
C7_Witness ==
    /\ Parsed /\ N = 6 /\ SmallBlind = NoName
    /\ Dealer # NoName /\ seat_number(Dealer) = 4
    /\ BigBlind # NoName /\ seat_number(BigBlind) = 5
    /\ position_map[Dealer] = "BTN"

\* C8: with exactly two players dealt in the only positions assigned are SB
\* and BB, and the player with the dealer marker is SB.
C8_HeadsUp ==
    (done /\ N = 2) =>
        /\ \A p \in Names : Assigned[p] \in {Absent, "SB", "BB"}
        /\ Dealer \in dealt_players => Assigned[Dealer] = "SB"

\* C9: with no dealer marker on a dealt player, SB and BB go to the players
\* who posted the small and the big blind, and the other positions of the
\* canonical list to the other dealt players in the order of their first
\* pre-flop action.
C9_BlindsThenActionOrder ==
    (Parsed /\ N \in 2..9 /\ Dealer \notin dealt_players) =>
        LET others == SelectSeq(acting_order_of(preflop_actors),
                                LAMBDA p : p \in dealt_players
                                           /\ p \notin {SmallBlind, BigBlind})
        IN  /\ SmallBlind # NoName => position_map[SmallBlind] = "SB"
            /\ BigBlind # NoName => position_map[BigBlind] = "BB"
            /\ \A k \in 1..Len(others) :
                  k + 2 <= N => position_map[others[k]] = POSITIONS_BY_COUNT(N)[k + 2]

\* C10: with no dealer marker on a dealt player and no small blind posted
\* the position reported for the hero is UNKNOWN.
C10_UnknownWithoutButton ==
    (done /\ Dealer \notin dealt_players /\ SmallBlind = NoName) =>
        HeroPosition = UNKNOWN


\* ------------------------------------------- positions and the seat order
\* the listed players who were dealt in, in listing order
dealt_only(pl, dealt) == SelectSeq(pl, LAMBDA p : p.name \in dealt)

\* the listed players at other seat numbers in the same order, gaps between
renumbered(pl) == [i \in DOMAIN pl |-> [pl[i] EXCEPT !.seat = 3 * pl[i].seat + 2]]

\* what the resolver that read the hand returns with other listed players
resolve(pl) ==
    IF resolver = "parse_game"
    THEN parse_game_map(pl, dealt_players, hero_name, round_zero, preflop_actors)
    ELSE IF resolver = "position_labels" THEN position_labels(pl)
    ELSE assign_positions_from_players(pl, SmallBlind)

\* C11: positions depend only on the cyclic seat order of the dealt players:
\* a listed player who is not dealt in has no position, the dealt players
\* have the positions they have with that player left out of the list, and
\* the positions they have with the seats renumbered in the same order.
C11_SeatOrderOfDealtOnly ==
    done =>
        /\ \A p \in Names \ dealt_players : Assigned[p] = Absent
        /\ Assigned = resolve(dealt_only(players, dealt_players))
        /\ Assigned = resolve(renumbered(players))

\* C11 for the opponent-performance resolver alone
C11_ParseGameSeatOrder ==
    Parsed =>
        /\ \A p \in Names \ dealt_players : position_map[p] = Absent
        /\ position_map = resolve(dealt_only(players, dealt_players))
        /\ position_map = resolve(renumbered(players))

\* C11, the renumbering alone, for the three resolvers
C11_Renumbering ==
    done => Assigned = resolve(renumbered(players))

\* ------------------------------------------------ the canonical list
\* the positions the resolver that ran has given to the dealt players
PositionsUsed == {Assigned[p] : p \in dealt_players}

\* C12: with N = 2..9 players listed and all of them dealt in, each of the
\* three components gives the dealt players the positions of one and the
\* same canonical N-position list, the one collapsing inward, which for
\* N = 4 is SB, BB, CO, BTN.
C12_SameCanonicalList ==
    (done /\ N \in 2..9 /\ Len(players) = N) =>
        /\ PositionsUsed = Range(POSITIONS_BY_COUNT(N))
        /\ N = 4 => PositionsUsed = {"SB", "BB", "CO", "BTN"}

\* C12 for the opponent-performance resolver alone
C12_ParseGameCanonicalList ==
    (Parsed /\ N \in 2..9 /\ Len(players) = N) =>
        /\ PositionsUsed = Range(POSITIONS_BY_COUNT(N))
        /\ N = 4 => PositionsUsed = {"SB", "BB", "CO", "BTN"}

\* ------------------------------------------------ records with no actor
\* the events the builder returns for the hand, and for the hand without
\* its no-player records
HandEvents == events_with_outcome(hm, hm_rest)
ShadowEvents == events_with_outcome(skm, skm_rest)

\* C13: an action record with no actor has no effect on the hand's result:
\* the BetEvents (pot-before and ratio, classification, villain outcome)
\* returned for the hand are those returned for the same hand with the
\* no-actor records removed, whichever round they stand in.
C13_NoActorNoEffect ==
    HandEvents = ShadowEvents

\* C13 for the no-actor records of the pre-flop round and for those of the
\* flop that stand before the hero's bet
C13_NoActorBeforeBet ==
    (hm.total_pot = skm.total_pot /\ hm_rest = skm_rest) => HandEvents = ShadowEvents

\* ------------------------------------------------ hands with no big blind
\* the positive numbers the text pattern and the structured field yield
PatternYields ==
    { float_of(BB_REGEX_group2(gametype_nodes[i])).n : i \in
        { j \in 1..2 : /\ BB_REGEX_group2(gametype_nodes[j]) # NoMatch
                        /\ float_of(BB_REGEX_group2(gametype_nodes[j])).kind = "num"
                        /\ float_of(BB_REGEX_group2(gametype_nodes[j])).n > 0 } }

FieldYields ==
    { float_of(bigblind_nodes[i]).n : i \in
        { j \in 1..2 : /\ float_of(bigblind_nodes[j]).kind = "num"
                        /\ float_of(bigblind_nodes[j]).n > 0 } }

\* C14: when neither the game-type text pattern nor the structured
\* big-blind field yields a positive big blind, the dependent leaves the
\* hand at its big-blind test (no BetEvent, no response, no count comes of
\* it), and the big blind it goes on with is never a number that the hand
\* does not hold.
C14_NoBlindNoEvent ==
    blind_read =>
        /\ (PatternYields = {} /\ FieldYields = {}) => hand_skipped
        /\ ~hand_skipped => (extracted.kind = "num"
                               /\ extracted.n \in PatternYields \cup FieldYields)

\* C14 for the hands whose bigblind nodes do not read "nan"
C14_NoBlindNoEventButNaN ==
    (blind_read /\ "nan" \notin Range(bigblind_nodes)) =>
        /\ (PatternYields = {} /\ FieldYields = {}) => hand_skipped
        /\ ~hand_skipped => (extracted.kind = "num"
                               /\ extracted.n \in PatternYields \cup FieldYields)

\* ------------------------------------------------ the flop's player count
\* C15: the player count a flop BetEvent carries is the number of players
\* dealt into the hand who had not folded when the flop began, two at
\* least; a player listed at the table but not dealt in is not counted.
C15_PlayerCountIsDealtAndIn ==
    \A k \in DOMAIN hm.events :
        /\ hm.events[k].player_count = Cardinality(in_at_flop)
        /\ hm.events[k].player_count >= 2

\* C15 for the hands where every listed player is dealt in
C15_PlayerCountAllDealt ==
    sitting_out = {} =>
        \A k \in DOMAIN hm.events :
            /\ hm.events[k].player_count = Cardinality(in_at_flop)
            /\ hm.events[k].player_count >= 2

\* ------------------------------------------------ the villain outcome
\* the response an action type is
ResponseOfType(t) ==
    IF t \in FOLD_TYPES THEN "Fold"
    ELSE IF t \in CALL_TYPES THEN "Call"
    ELSE IF t \in BET_TYPES \cup RAISE_TYPES THEN "Raise"
    ELSE "Check"

\* the opponents' responses to the hero's bet: the first record of each
\* opponent among the flop's records after the bet, in order
OpponentResponses ==
    LET firsts == { i \in DOMAIN hm_rest :
                      /\ hm_rest[i].player \notin {None, Hero}
                      /\ \A j \in 1..(i - 1) : hm_rest[j].player # hm_rest[i].player }
        nth(k) == CHOOSE i \in firsts : Cardinality({j \in firsts : j < i}) = k - 1
    IN  [k \in 1..Cardinality(firsts) |->
            [player |-> hm_rest[nth(k)].player,
             response |-> ResponseOfType(hm_rest[nth(k)].type)]]

\* after the bet the flop holds nothing but responses: no second action of
\* the hero or of an opponent
OnlyResponsesFollow ==
    /\ \A i \in DOMAIN hm_rest : hm_rest[i].player # Hero
    /\ \A i, j \in DOMAIN hm_rest :
          (i # j /\ hm_rest[i].player # None) => hm_rest[i].player # hm_rest[j].player

\* C16: the villain outcome of a BetEvent is fold exactly when no
\* opponent's response is a Call or a Raise, raise when a response is a
\* Raise, and call when there is a Call and no Raise: it is the outcome that
\* _resolve_outcome gives for the opponents' responses.
C16_OutcomeByResponses ==
    (hm.events # <<>> /\ OnlyResponsesFollow) =>
        LET outcome == HandEvents[1].villain_outcome
            kinds == {OpponentResponses[k].response : k \in DOMAIN OpponentResponses}
        IN  /\ outcome = resolve_outcome(OpponentResponses)
            /\ outcome = "fold" <=> kinds \cap {"Call", "Raise"} = {}
            /\ outcome = "raise" <=> "Raise" \in kinds
            /\ outcome = "call" <=> ("Call" \in kinds /\ "Raise" \notin kinds)

\* C16 for the hands with no record without a player after the bet
C16_OutcomeByResponsesAllNamed ==
    (hm.events # <<>> /\ OnlyResponsesFollow
        /\ \A i \in DOMAIN hm_rest : hm_rest[i].player # None) =>
        LET outcome == HandEvents[1].villain_outcome
            kinds == {OpponentResponses[k].response : k \in DOMAIN OpponentResponses}
        IN  /\ outcome = resolve_outcome(OpponentResponses)
            /\ outcome = "fold" <=> kinds \cap {"Call", "Raise"} = {}
            /\ outcome = "raise" <=> "Raise" \in kinds
            /\ outcome = "call" <=> ("Call" \in kinds /\ "Raise" \notin kinds)

\* ------------------------------------------------ the aggregate counters
\* one event has been read: a bet of ratio 0.30 of a known bet type, not
\* all-in and not of one big blind, answered by one Fold and one Call
FoldAndCallRead ==
    /\ agg_read = 1
    /\ agg_last.ratio = <<30, 100>>
    /\ agg_last.responses = <<[response |-> "Fold"], [response |-> "Call"]>>
    /\ agg_last.villain_outcome = None
    /\ ~agg_last.is_all_in /\ ~agg_last.is_one_bb
    /\ normalise_bet_type(agg_last.bet_type) # None

\* the counters of the event's scenario and bucket
CountersOfLast ==
    agg.aggregate[<<"BTN", normalise_bet_type(agg_last.bet_type), "IP", 2>>]
                 [bucket_for_event(agg_last)]

\* C17 as stated: the counters count each opponent response: for a single
\* BetEvent of ratio 0.30 (bucket 25-40%) answered by one Fold and one Call
\* the bucket's counters are events = 1, fold_events = 1, call_events = 1.
C17_EachResponseCounted ==
    FoldAndCallRead =>
        /\ bucket_for_event(agg_last) = "pct_25_40"
        /\ CountersOfLast.events = 1
        /\ CountersOfLast.fold_events = 1
        /\ CountersOfLast.call_events = 1

\* C17 amended: the counters count each event once, under its resolved
\* outcome: for a single BetEvent of ratio 0.30 (bucket 25-40%) answered by
\* one Fold and one Call the bucket's counters are events = 1,
\* fold_events = 0, call_events = 1, raise_events = 0.
C17_OneOutcomePerEvent ==
    FoldAndCallRead =>
        /\ bucket_for_event(agg_last) = "pct_25_40"
        /\ CountersOfLast.events = 1
        /\ CountersOfLast.fold_events = 0
        /\ CountersOfLast.call_events = 1
        /\ CountersOfLast.raise_events = 0

\* the event is aggregated and the scenarios are returned: one scenario,
\* with the call counted
C17_Witness ==
    /\ FoldAndCallRead /\ agg_done
    /\ Len(agg_result) = 1
    /\ agg_result[1].metrics["pct_25_40"].call_events = 1

\* ------------------------------------------------ the ratio buckets
\* the ratio n / d lies in the half-open interval [lower, upper) of the bucket
InInterval(i, r) ==
    LET b == BET_SIZE_BUCKETS[i]
    IN  /\ b.lower * r[2] <= r[1] * 100
        /\ (b.upper # -1 => r[1] * 100 < b.upper * r[2])

\* a float that is a number, not below zero
FiniteNonNegative(r) == r # NoRatio /\ r[2] > 0 /\ r[1] >= 0

NoUsableRatio(r) == r = NoRatio \/ r[2] = 0 \/ r[1] < 0

\* the events counted in the ratio-keyed buckets, over all scenarios
RatioKeyedEvents ==
    { <<key, i>> \in (DOMAIN agg.aggregate) \X (DOMAIN BET_SIZE_BUCKETS) :
        agg.aggregate[key][BET_SIZE_BUCKETS[i].key].events > 0 }

\* C19: bucket_for_ratio returns no bucket for a missing, negative, NaN or
\* infinite ratio, and an event with such a ratio is counted in no
\* ratio-keyed bucket.
C19_NoBucketWithoutRatio ==
    (agg_read = 1 /\ NoUsableRatio(agg_last.ratio)) =>
        /\ bucket_for_ratio(agg_last.ratio) = 0
        /\ RatioKeyedEvents = {}

\* C19 for the ratios other than float("inf")
C19_NoBucketButForInf ==
    (agg_read = 1 /\ NoUsableRatio(agg_last.ratio) /\ agg_last.ratio # InfRatio) =>
        /\ bucket_for_ratio(agg_last.ratio) = 0
        /\ RatioKeyedEvents = {}

\* C20: bucket_for_ratio(3.5) returns the bucket at index 6 of
\* BET_SIZE_BUCKETS (counted from 0), the bucket that bucket_for_ratio(1.25)
\* returns.
C20_ThreeAndAHalfAtIndexSix ==
    (ratio_bucketed /\ ratio_given = <<350, 100>>) =>
        /\ bucket_found - 1 = 6
        /\ bucket_found = bucket_for_ratio(<<125, 100>>)

\* C20 for the ratio 1.25 alone: index 6, the bucket 125-200%
C20_OneAndAQuarterAtIndexSix ==
    (ratio_bucketed /\ ratio_given = <<125, 100>>) =>
        /\ bucket_found - 1 = 6
        /\ BET_SIZE_BUCKETS[bucket_found].key = "pct_125_200"

\* ------------------------------------------------ the stack and pot buckets
BucketsUsed == IF bucketer = "stack" THEN STACK_BUCKETS ELSE POT_BUCKETS

\* lower <= value < upper for the i-th bucket of the list in use
InHalfOpen(i, value) ==
    /\ 2 * value[1] >= BucketsUsed[i].lower * value[2]
    /\ BucketsUsed[i].upper # -1 => 2 * value[1] < BucketsUsed[i].upper * value[2]

FinitePositive(value) == value # NoRatio /\ value[2] > 0 /\ value[1] > 0

\* the value is the upper bound of a bucket, or within math.isclose of it
OnABound(value) ==
    \E i \in DOMAIN BucketsUsed :
        BucketsUsed[i].upper # -1 /\ isclose(value, BucketsUsed[i].upper)

\* C21: stack and pot bucketing follow the half-open [lower, upper) rule:
\* every positive value falls in exactly one bucket, and a value equal to a
\* bucket's upper bound (a stack of 30 bb, a pot of 2.5 bb) goes to the next
\* bucket, not the one it closes.
C21_HalfOpenBlinds ==
    (blinds_bucketed /\ bucketer # None /\ FinitePositive(blinds_given)) =>
        /\ blinds_bucket \in DOMAIN BucketsUsed
        /\ {i \in DOMAIN BucketsUsed : InHalfOpen(i, blinds_given)} = {blinds_bucket}

\* C21 for the values that are on no bucket's upper bound
C21_HalfOpenOffTheBounds ==
    (blinds_bucketed /\ bucketer # None /\ FinitePositive(blinds_given)
        /\ ~OnABound(blinds_given)) =>
        /\ blinds_bucket \in DOMAIN BucketsUsed
        /\ {i \in DOMAIN BucketsUsed : InHalfOpen(i, blinds_given)} = {blinds_bucket}

\* a value on an upper bound is given the bucket that the bound closes
C21_BoundClosesItsBucket ==
    (blinds_bucketed /\ bucketer # None /\ FinitePositive(blinds_given)) =>
        \A i \in DOMAIN BucketsUsed :
            (BucketsUsed[i].upper # -1 /\ isclose(blinds_given, BucketsUsed[i].upper))
                => blinds_bucket = i

\* ------------------------------------------------ the primary category
AllCards == hole_cards \cup board_cards

CountOfRank(r) == Cardinality({ c \in AllCards : c[2] = r })

PocketPair == Cardinality({ c[2] : c \in hole_cards }) = 1

\* the board's distinct ranks from the highest down
BoardRanks == { c[2] : c \in board_cards }
BoardRankAt(k) ==
    { r \in BoardRanks : Cardinality({ q \in BoardRanks : q > r }) = k - 1 }

\* five consecutive ranks among hole plus board, the ace counting as 1 or 14
FiveInARow ==
    LET present == { c[2] : c \in AllCards } \cup (IF \E c \in AllCards : c[2] = 14 THEN {1} ELSE {})
    IN  \E low \in 1..10 : \A r \in low..(low + 4) : r \in present

\* the condition of a category over hole plus board
CategoryHolds(category) ==
    CASE category = "Full House" ->
            \E r \in 2..14 : \E q \in (2..14) \ {r} : CountOfRank(r) >= 3 /\ CountOfRank(q) >= 2
      [] category = "Quads" -> \E r \in 2..14 : CountOfRank(r) >= 4
      [] category = "Flush" ->
            \E s \in SUITS : Cardinality({ c \in AllCards : c[1] = s }) >= 5
      [] category = "Straight" -> FiveInARow
      [] category = "Trips/Set" -> \E r \in 2..14 : CountOfRank(r) >= 3
      [] category = "Two Pair" -> Cardinality({ r \in 2..14 : CountOfRank(r) >= 2 }) >= 2
      [] category = "Overpair" ->
            PocketPair /\ \A c \in hole_cards : \A b \in board_cards : c[2] > b[2]
      [] category = "Top Pair" -> \E c \in hole_cards : c[2] \in BoardRankAt(1)
      [] category = "Middle Pair" -> \E c \in hole_cards : c[2] \in BoardRankAt(2)
      [] category = "Bottom Pair" -> \E c \in hole_cards : c[2] \in BoardRankAt(3)
      [] category = "Underpair" ->
            PocketPair /\ \A c \in hole_cards : \E b \in board_cards : c[2] < b[2]
      [] category = "Air" -> TRUE

CategoryOrder ==
    << "Full House", "Quads", "Flush", "Straight", "Trips/Set", "Two Pair",
       "Overpair", "Top Pair", "Middle Pair", "Bottom Pair", "Underpair", "Air" >>

FirstCategory ==
    CategoryOrder[CHOOSE i \in DOMAIN CategoryOrder :
                    /\ CategoryHolds(CategoryOrder[i])
                    /\ \A j \in 1..(i - 1) : ~CategoryHolds(CategoryOrder[j])]

\* C22: for two hole cards and a board of three to five cards, classify
\* returns one primary category, the first in the order Full House, Quads,
\* Flush, Straight, Trips/Set, Two Pair, Overpair, Top Pair, Middle Pair,
\* Bottom Pair, Underpair, Air whose condition holds over hole plus board; a
\* hand that makes a full house and a flush is reported as Full House.
C22_FirstCategoryInOrder ==
    classified /\ hole_cards # {} =>
        /\ classification.primary = FirstCategory
        /\ (CategoryHolds("Full House") /\ CategoryHolds("Flush"))
                => classification.primary = "Full House"

\* a hand that makes a flush and a straight, reported as Flush
C22_Witness ==
    /\ classified /\ hole_cards # {}
    /\ CategoryHolds("Flush") /\ CategoryHolds("Straight")
    /\ classification.primary = "Flush"

\* ------------------------------------------------ the draw flags
HoleRanksBothAces ==
    { c[2] : c \in hole_cards } \cup (IF \E c \in hole_cards : c[2] = 14 THEN {1} ELSE {})

AllRanksBothAces ==
    { c[2] : c \in AllCards } \cup (IF \E c \in AllCards : c[2] = 14 THEN {1} ELSE {})

\* the four ranks from low up are all present, one of them in the hole
RunOfFour(low) ==
    /\ \A r \in low..(low + 3) : r \in AllRanksBothAces
    /\ \E r \in low..(low + 3) : r \in HoleRanksBothAces

\* C23: the OESD flag is true exactly when no straight is made and some run
\* of four consecutive ranks, the ace counting as 1 or 14 (A-2-3-4 and
\* J-Q-K-A included), is present among hole plus board and holds a hole rank.
C23_OesdAnyRunOfFour ==
    classified /\ hole_cards # {} =>
        (classification.oesd <=> (~FiveInARow /\ \E low \in 1..11 : RunOfFour(low)))

\* C23 with the runs 2-3-4-5 up to 10-J-Q-K only, those that a rank at
\* either end completes
C23_OesdOpenAtBothEnds ==
    classified /\ hole_cards # {} =>
        (classification.oesd <=> (~FiveInARow /\ \E low \in 2..10 : RunOfFour(low)))

\* 2-3-4-5 with no ace: an OESD
C23_Witness ==
    /\ classified /\ classification.oesd
    /\ {2, 3, 4, 5} \subseteq AllRanksBothAces

\* C24: the flush-draw flag is true exactly when some suit appears exactly
\* four times among hole plus board with a hole card of that suit, and is
\* false when a flush is made; Ah Kh on Qh Jh 2c gives flush draw true,
\* primary Air and made_straight false.
C24_FlushDrawExactlyFour ==
    classified /\ hole_cards # {} =>
        /\ classification.flush_draw <=>
              \E s \in SUITS :
                  /\ Cardinality({ c \in AllCards : c[1] = s }) = 4
                  /\ \E c \in hole_cards : c[1] = s
        /\ classification.made_flush => ~classification.flush_draw
        /\ (hole_cards = {<<"H", 14>>, <<"H", 13>>}
              /\ board_cards = {<<"H", 12>>, <<"H", 11>>, <<"C", 2>>})
                => /\ classification.flush_draw
                   /\ classification.primary = "Air"
                   /\ ~classification.made_straight

\* Ah Kh on Qh Jh 2c has been classified
C24_Witness ==
    /\ classified
    /\ hole_cards = {<<"H", 14>>, <<"H", 13>>}
    /\ board_cards = {<<"H", 12>>, <<"H", 11>>, <<"C", 2>>}
    /\ classification.flush_draw

\* ------------------------------------------------ the card texts
\* a part that writes a card: a suit and a rank in either order, in either
\* case of letter, the ten as T or as 10
IsCard(part) ==
    \/ /\ Len(part) = 2
       /\ \/ upper(part[1]) \in SUITS /\ upper(part[2]) \in DOMAIN CARD_RANKS
          \/ upper(part[2]) \in SUITS /\ upper(part[1]) \in DOMAIN CARD_RANKS
    \/ /\ Len(part) = 3
       /\ \/ upper(part[1]) \in SUITS /\ part[2] = "1" /\ part[3] = "0"
          \/ part[1] = "1" /\ part[2] = "0" /\ upper(part[3]) \in SUITS

StrictParsers == {"parse_cards_text", "_parse_cards"}

\* C25: if any part of the input is not a valid card, the card parser
\* returns an empty result for the whole input, never a shorter list made
\* of the parts that were valid.
C25_WholeInputRejected ==
    (cards_read /\ card_parser \in StrictParsers /\ card_text # NoCardText) =>
        /\ (\E i \in DOMAIN card_text : ~IsCard(card_text[i])) => cards_parsed = <<>>
        /\ cards_parsed # <<>> => Len(cards_parsed) = Len(card_text)

\* a king of hearts followed by a part that is no card: nothing returned
C25_Witness ==
    /\ cards_read /\ card_parser = "parse_cards_text"
    /\ card_text = << <<"H", "K">>, <<"X", "X">> >>
    /\ cards_parsed = <<>>

KingOfHeartsWritten == { <<"H", "K">>, <<"K", "H">> }
TenOfHeartsWritten == { <<"H", "T">>, <<"H", "1", "0">>, <<"1", "0", "H">> }

\* the text is one card of the writings and the parser returns the card
ReadsAs(writings, card) ==
    (Len(card_text) = 1 /\ card_text[1] \in writings) => cards_parsed = <<card>>

\* C26: the card parser accepts each card written suit-first or rank-first,
\* and accepts 10 for a ten, with the same (suit, rank) pair in every case.
C26_EitherOrderAndTen ==
    (cards_read /\ card_parser \in {"parse_cards_text", "detect_textures"}) =>
        /\ ReadsAs(KingOfHeartsWritten, <<"H", 13>>)
        /\ ReadsAs(TenOfHeartsWritten, <<"H", 10>>)

\* C26 for the parser of the textures; parse_cards_text reads the
\* suit-first writing of two characters and returns nothing for the others
C26_TexturesEitherOrderAndTen ==
    /\ (cards_read /\ card_parser = "detect_textures") =>
          /\ ReadsAs(KingOfHeartsWritten, <<"H", 13>>)
          /\ ReadsAs(TenOfHeartsWritten, <<"H", 10>>)
    /\ (cards_read /\ card_parser = "parse_cards_text") =>
          /\ ReadsAs({<<"H", "K">>}, <<"H", 13>>)
          /\ ReadsAs({<<"H", "T">>}, <<"H", 10>>)
          /\ (Len(card_text) = 1
                /\ card_text[1] \in {<<"K", "H">>, <<"H", "1", "0">>, <<"1", "0", "H">>})
                    => cards_parsed = <<>>

\* 10H read by the parser of the textures as the ten of hearts
C26_Witness ==
    /\ cards_read /\ card_parser = "detect_textures"
    /\ card_text = << <<"1", "0", "H">> >>
    /\ cards_parsed = << <<"H", 10>> >>

\* C27: detect_textures returns the empty list for every input that is not
\* exactly three well-formed card parts (no text, fewer or more than three
\* parts, or a part that is no card).
C27_EmptyUnlessThreeCards ==
    (cards_read /\ card_parser = "detect_textures") =>
        (~(/\ card_text # NoCardText
           /\ Len(card_text) = 3
           /\ \A i \in DOMAIN card_text : IsCard(card_text[i]))
            => textures_found = <<>>)

\* C27 for no text, and for the texts of which _parse_token does not read
\* exactly three parts
C27_EmptyUnlessThreeRead ==
    (cards_read /\ card_parser = "detect_textures") =>
        ((\/ card_text = NoCardText
          \/ Cardinality({ i \in DOMAIN card_text : parse_token(card_text[i]) # NoCard }) # 3)
            => textures_found = <<>>)

\* ------------------------------------------------ the order of the events
BothAggregated == of_listed.returned /\ of_reordered.returned

\* C28: the per-scenario, per-bucket counters depend on the multiset of the
\* events only: any permutation of the list gives the same counters for
\* every scenario and bucket.
C28_OrderOfEventsIgnored ==
    (BothAggregated /\ listed # <<>>) =>
        /\ of_listed.result.aggregate = of_reordered.result.aggregate
        /\ of_listed.result.scenarios = of_reordered.result.scenarios

\* three events in another order, a fold and a call counted in one bucket
C28_Witness ==
    /\ BothAggregated /\ Len(listed) = 3 /\ reorder = <<3, 1, 2>>
    /\ listed[1] # listed[3]
    /\ \E key \in DOMAIN of_listed.result.aggregate :
          /\ of_listed.result.aggregate[key]["pct_25_40"].fold_events > 0
          /\ of_listed.result.aggregate[key]["pct_25_40"].call_events > 0

\* ------------------------------------------------ rows that cannot be parsed
\* the rows that hold a hand with an event, in their order
BettingRows == SelectSeq([ i \in DOMAIN rows |-> i ], LAMBDA i : rows[i] = "betting")

CannotBeParsed(kind) == kind \in {"null", "blank", "broken"}

\* C29: a hand-history record that cannot be parsed contributes no events
\* and never prevents the records after it from being processed: the loader
\* still returns the events of every other hand.
C29_UnparsableSkipped ==
    (loading \in RowLoaders /\ max_hands = NoLimit) =>
        /\ raised = None
        /\ returned => loaded = BettingRows

\* C29 for collect_flop_bet_events, and for the turn and river loaders on
\* texts that are not well-formed
C29_UnparsableSkippedWhereCaught ==
    /\ (loading = "collect_flop_bet_events" /\ max_hands = NoLimit) =>
          /\ raised = None
          /\ returned => loaded = BettingRows
    /\ (loading \in {"load_turn_events", "load_river_events"}
          /\ \A i \in DOMAIN rows : rows[i] # "null") =>
          /\ raised = None
          /\ returned => loaded = BettingRows

\* C30: with max_hands = k at most k hands are processed: the walker
\* examines no more than k records, however many or few events they yield.
C30_AtMostKHandsWalked ==
    (loading \in {"collect_flop_bet_events", "build_response_curves"}
        /\ max_hands # NoLimit) => walked <= max_hands

\* what max_hands = k does bound: the events collect_flop_bet_events
\* returns, and the hands build_response_curves processes
C30_AtMostKEventsOrHands ==
    /\ (loading = "collect_flop_bet_events" /\ max_hands # NoLimit /\ returned)
          => Len(loaded) <= max_hands
    /\ (loading = "build_response_curves" /\ max_hands # NoLimit)
          => walked <= max_hands

\* ------------------------------------------------ the forced load
Forced == result # NotLoaded /\ force /\ path_given

\* C31: a load with force-refresh set never returns previously cached
\* content: the result is re-derived from the hand-history source, and the
\* cache afterwards holds that re-derived result.
C31_ForcedLoadRederives ==
    Forced => (result = derived(source_hands) /\ cache_file = derived(source_hands))

\* What holds: load_cbet_events, and load_preflop_shove_events on an
\* available source, return what they derive and leave it in the file;
\* load_response_curve_scenarios returns the sample scenarios and leaves no
\* file; load_preflop_shove_events on a source that is not available returns
\* no events.
C31_ForcedLoadByLoader ==
    Forced =>
        CASE cache_loader = "load_response_curve_scenarios" ->
                result = SAMPLE_SCENARIOS /\ cache_file = NoFile
          [] cache_loader = "load_preflop_shove_events" /\ ~source_available ->
                result = NoEvents
          [] OTHER ->
                result = derived(source_hands) /\ cache_file = derived(source_hands)

\* ------------------------------------------------ the situation of a raise
\* the rows before row i that have a seat, the raises and the calls among
\* them, and the calls since the last of these raises
SeatedBefore(i) == { j \in 1..(i - 1) : hand_actions[j].seat_no # 0 }
RaisesBefore(i) == { j \in SeatedBefore(i) : hand_actions[j].action \in RAISE_ACTIONS }
CallsBefore(i) == { j \in SeatedBefore(i) : hand_actions[j].action \in CALL_ACTIONS }
CallsSinceRaise(i) == { j \in CallsBefore(i) : \A k \in RaisesBefore(i) : k < j }

SituationBefore(i) ==
    IF RaisesBefore(i) = {}
    THEN IF CallsBefore(i) = {} THEN "folded_to_hero" ELSE "facing_limpers"
    ELSE IF Cardinality(RaisesBefore(i)) = 1
    THEN IF CallsSinceRaise(i) = {} THEN "facing_single_raise"
         ELSE "facing_raise_with_callers"
    ELSE "facing_three_bet"

\* C32: for every recorded pre-flop raise the situation key is determined by
\* the actions before it: folded_to_hero if no raise and no call precede it,
\* facing_limpers if no raise and at least one call, facing_single_raise if
\* exactly one raise with no call since, facing_raise_with_callers if exactly
\* one raise with at least one call since, facing_three_bet if two or more
\* raises precede it.
C32_SituationByActionsBefore ==
    \A k \in DOMAIN hero_events :
        hero_events[k].situation_key = SituationBefore(hero_events[k].at)

\* a raise recorded after a raise and a call
C32_Witness ==
    \E k \in DOMAIN hero_events :
        /\ hero_events[k].situation_key = "facing_raise_with_callers"
        /\ Cardinality(CallsSinceRaise(hero_events[k].at)) = 1

\* ------------------------------------------------ the cached pot bucket
\* the item carries pot_size_bb = 3.5 and neither a key nor a label of the
\* pot bucket
PotSizeOnly ==
    /\ scenario_read
    /\ DOMAIN scenario_data.texts \cap {"pot_bucket_key", "pot_bucket", "pot_bucket_label"} = {}
    /\ number_get(scenario_data, "pot_size_bb", NoRatio) = <<7, 2>>

\* C33: loading a cached scenario that carries pot_size_bb = 3.5 but no
\* pot-bucket key and no pot-bucket label yields a scenario whose
\* pot_bucket_key is 'pot_medium'.
C33_PotMediumFromPotSize ==
    PotSizeOnly => scenario.pot_bucket_key = "pot_medium"

\* What holds: the key is the empty text, and pot_size_bb is kept.
C33_NoKeyFromPotSize ==
    PotSizeOnly => (scenario.pot_bucket_key = "" /\ scenario.pot_size_bb = <<7, 2>>)

\* ------------------------------------------------ the cell of a shove
AceKingOfHearts == << <<"H", "A">>, <<"H", "K">> >>

\* the ranges of the payload whose only event has the hole cards 'HA HK'
OnlyAceKingOfHearts ==
    { d \in DOMAIN shove_payload :
        LET definition == RANGE_DEFINITIONS[d]
            subset == filter_events(shove_events, definition.category, definition.min_bb,
                                    definition.max_bb)
        IN  Len(subset) = 1 /\ subset[1].hole_cards = AceKingOfHearts }

\* the percent of the group in the primary summary is 100
AllIn(range, the_group) ==
    \E g \in DOMAIN range.summary_primary :
        /\ range.summary_primary[g].group = the_group
        /\ range.summary_primary[g].percent[1] = 100 * range.summary_primary[g].percent[2]

MatrixCounters ==
    { agg.aggregate[key][b] : key \in DOMAIN agg.aggregate, b \in BUCKET_KEYS }

\* the bucket aggregates of every scenario of the response curve builder
CurveBuckets ==
    UNION { { scenarios[key].buckets[b] : b \in DOMAIN scenarios[key].buckets } :
            key \in DOMAIN scenarios }

\* C35: in every aggregate bucket, after any sequence of registered events,
\* events = fold_events + call_events + raise_events, for the flop response
\* matrix counters and for the response-curve bucket counts alike.
C35_EventsAreFoldsCallsRaises ==
    /\ \A m \in MatrixCounters :
          m.events = m.fold_events + m.call_events + m.raise_events
    /\ \A b \in CurveBuckets :
          b.count = b.fold_count + b.call_count + b.raise_count

\* two events are aggregated into one bucket of the matrix, one of them
\* called
C35_Witness ==
    /\ agg_read = 2
    /\ \E m \in MatrixCounters : m.events = 2 /\ m.call_events = 1

\* a hand is registered whose recorded raise was answered by a call
C35_CurveWitness ==
    /\ processed /\ Len(hero_events) = 1
    /\ \E b \in CurveBuckets : b.count = 1 /\ b.call_count = 1

\* ------------------------- the builder's outcome and the loader's responses
\* load_cbet_events from the bet on: the event of the bettor is the current
\* one and the flop's records after the bet go through the loop's body
CbetAtBet(bettor) ==
    [CbetInit EXCEPT
        !.events = <<[player |-> bettor, ratio |-> NoRatio, responses |-> <<>>]>>,
        !.current_event = 1,
        !.cbet_logged = TRUE,
        !.flop_cards = TRUE,
        !.skipped = FALSE]

RECURSIVE cbet_actions(_, _)
cbet_actions(s, rest) ==
    IF rest = <<>> THEN s ELSE cbet_actions(cbet_action(s, Head(rest)), Tail(rest))

\* the responses the c-bet loader records for the bet
cbet_responses(rest, bettor) == cbet_actions(CbetAtBet(bettor), rest).events[1].responses

\* C36: for the same flop action sequence, the villain outcome computed
\* directly by the flop matrix builder equals the outcome obtained by
\* resolving the per-opponent responses that the c-bet loader records for
\* that bet (raise if any Raise, else call if any Call, else fold).
C36_BuilderOutcomeIsResolved ==
    (hm.events # <<>> /\ OnlyResponsesFollow) =>
        HandEvents[1].villain_outcome = resolve_outcome(cbet_responses(hm_rest, Hero))

\* C36 for the flops with no record without a player after the bet
C36_BuilderOutcomeIsResolvedAllNamed ==
    (hm.events # <<>> /\ OnlyResponsesFollow
        /\ \A i \in DOMAIN hm_rest : hm_rest[i].player # None) =>
        HandEvents[1].villain_outcome = resolve_outcome(cbet_responses(hm_rest, Hero))

\* C36 for every stream of records, a second action of the hero or of an
\* opponent included
C36_BuilderOutcomeIsResolvedAnyStream ==
    (hm.events # <<>> /\ \A i \in DOMAIN hm_rest : hm_rest[i].player # None) =>
        HandEvents[1].villain_outcome = resolve_outcome(cbet_responses(hm_rest, Hero))

\* the bet is answered by a fold and a call, every record naming its player
C36_AllNamedWitness ==
    /\ hm.events # <<>> /\ OnlyResponsesFollow /\ Len(hm_rest) = 2
    /\ \A i \in DOMAIN hm_rest : hm_rest[i].player # None
    /\ hm_rest[1].type = "0" /\ hm_rest[2].type = "3"
    /\ HandEvents[1].villain_outcome = "call"

\* ------------------------------------------------ the payload of any events
\* the counters of a bucket, zero where the scenario is not there yet
CountersAt(st, key, b) ==
    IF key \in DOMAIN st.aggregate THEN st.aggregate[key][b] ELSE NoCounters

\* the event read last has changed no counter
LastSkipped ==
    /\ DOMAIN pay.aggregate = DOMAIN pay_before.aggregate
    /\ \A key \in DOMAIN pay.aggregate : pay.aggregate[key] = pay_before.aggregate[key]

\* the event read last has added one to the events of exactly one bucket
\* of BUCKET_KEYS
LastCountedOnce ==
    \E key \in DOMAIN pay.aggregate : \E b \in BUCKET_KEYS :
        /\ pay.aggregate[key][b].events = CountersAt(pay_before, key, b).events + 1
        /\ \A other \in DOMAIN pay.aggregate : \A c \in BUCKET_KEYS :
              <<other, c>> # <<key, b>> =>
                  pay.aggregate[other][c] = CountersAt(pay_before, other, c)

\* C37: build_flop_response_payload never raises: every input event either
\* increments the counters of exactly one known bucket or is skipped,
\* whatever values its bet_type, bucket_key, ratio and responses fields hold.
C37_PayloadNeverRaises ==
    /\ pay_raised = None
    /\ pay_read > 0 => (LastSkipped \/ LastCountedOnce)

\* C37 for the events whose bucket_key is no text or one of BUCKET_KEYS and
\* whose ratio is no int beyond the floats
C37_PayloadNeverRaisesOnKnownKeys ==
    (pay_last.bucket_key \in (BUCKET_KEYS \cup {None}) /\ pay_last.ratio.kind # "huge int") =>
        /\ pay_raised = None
        /\ pay_read > 0 => (LastSkipped \/ LastCountedOnce)

\* a payload is returned for two events, the second counted in the bucket
\* of its ratio
C37_KnownKeysWitness ==
    /\ pay_done /\ pay_read = 2 /\ LastCountedOnce
    /\ pay_last.bucket_key = None /\ ~pay_last.is_all_in
    /\ Len(pay_result.scenarios) = 1

\* ------------------------------------------------ the accumulators' counts
Accumulators ==
    { overall[n] : n \in DOMAIN overall } \cup { by_position[s] : s \in DOMAIN by_position }

\* C38: after any sequence of hands has been recorded, every accumulator
\* satisfies pfr_hands <= vpip_hands <= hand_count and
\* three_bet_hands <= three_bet_opportunities.
C38_CountsOrdered ==
    \A acc \in Accumulators :
        /\ acc.pfr_hands <= acc.vpip_hands
        /\ acc.vpip_hands <= acc.hand_count
        /\ acc.three_bet_hands <= acc.three_bet_opportunities

\* two games recorded in one accumulator: in one the hero called a raise,
\* in the other the hero re-raised
C38_Witness ==
    /\ games_read = 2
    /\ \E acc \in Accumulators :
          /\ acc.hand_count = 2 /\ acc.vpip_hands = 2 /\ acc.pfr_hands = 1
          /\ acc.three_bet_hands = 1 /\ acc.three_bet_opportunities = 2

====
